---- MODULE Spec2Model ----
(***************************************************************************)
(* A model of the rust-gateway request pipeline: the route table and its   *)
(* pattern matcher, the rate limiter, the whitelist stage, the JWT         *)
(* verifier, header propagation and the proxy handler.                     *)
(*                                                                         *)
(* Strings are sequences of one-character strings, so that prefixes,       *)
(* lengths and single characters are what they are in the source.          *)
(***************************************************************************)
EXTENDS Integers, Sequences, FiniteSets, TLC

VARIABLES
    route_rules,    \* Extension<Vec<RouteRule>>: the route table installed by main
    settings,       \* Extension<Settings>, or NoSettings when the layer is absent
    limits,         \* Arc<RateLimits>: [global, per_ip, global_cap, client_cap]
    pattern_cache,  \* PATTERN_CACHE: the pattern strings compiled and stored so far
    balancers,      \* BALANCERS: registry key -> balancer state
    req,            \* the in-flight request (uri, headers, peer, extensions, ...)
    pc,             \* the stage the in-flight request is about to enter
    trace,          \* the stages the in-flight request has entered, in order
    resp,           \* the response of the in-flight request, NoResp until produced
    outbound,       \* the outbound requests issued for the in-flight request
    served,         \* requests accepted so far (bounded by MaxRequests)
    global_passed,  \* requests the global bucket let through since its last replenishment
    clients,        \* history: the peer addresses whose requests passed the per-IP check
    call,           \* the last direct call of a pure function: [fn, args, result]
    hasher,         \* DefaultHasher: the 64-bit hash of every key string of the model
    metrics,        \* HTTP_COUNTER and HTTP_DURATION: label -> number of updates
    direct          \* a balancer used directly and the tasks calling it

vars == <<route_rules, settings, limits, pattern_cache, balancers, req, pc, trace,
          resp, outbound, served, global_passed, clients, call, hasher, metrics,
          direct>>

(***************************************************************************)
(* Bounds of the model.                                                    *)
(***************************************************************************)
MaxRequests == 2
MaxRateRequests == 3
MaxQps == 2
MaxRules == 2
MaxLen == 3

\* the width of usize in the model
UsizeBits == 2

\* virtual nodes per upstream on the ip-hash ring (150 in the source)
VirtualNodes == 2

\* redirects the HTTP client follows for one request (reqwest's default is 10)
RedirectLimit == 2

(***************************************************************************)
(* Strings.                                                                *)
(***************************************************************************)
Min(a, b) == IF a < b THEN a ELSE b

Max(a, b) == IF a > b THEN a ELSE b

\* str::starts_with
StartsWith(s, p) == Len(p) <= Len(s) /\ SubSeq(s, 1, Len(p)) = p

\* str::strip_prefix(p).unwrap_or(s)
StripPrefixOr(s, p) == IF StartsWith(s, p) THEN SubSeq(s, Len(p) + 1, Len(s)) ELSE s

\* str::contains(char)
Contains(s, c) == \E i \in 1..Len(s) : s[i] = c

\* the index of the first occurrence of c at or after position i, 0 when there is none
RECURSIVE FindFrom(_, _, _)
FindFrom(s, c, i) ==
    IF i > Len(s) THEN 0
    ELSE IF s[i] = c THEN i
    ELSE FindFrom(s, c, i + 1)

\* str::split('/')
RECURSIVE Split(_, _)
Split(s, sep) ==
    LET i == FindFrom(s, sep, 1)
    IN IF i = 0 THEN <<s>>
       ELSE <<SubSeq(s, 1, i - 1)>> \o Split(SubSeq(s, i + 1, Len(s)), sep)

Slash == "/"

Digits == {"0", "1", "2", "3", "4", "5", "6", "7", "8", "9"}

(***************************************************************************)
(* path_matcher.rs: RoutePattern.  A compiled pattern is the sequence of   *)
(* regex nodes that compile_pattern writes between ^ and $.                *)
(***************************************************************************)
Inf == -1

Node(t, c, cls, lo, hi, name) ==
    [t |-> t, c |-> c, cls |-> cls, lo |-> lo, hi |-> hi, name |-> name]

Lit(c) == Node("lit", c, "", 1, 1, <<>>)

ClassNode(cls, lo, hi) == Node("set", "", cls, lo, hi, <<>>)

GroupOpen(name) == Node("open", "", "", 0, 0, name)

GroupClose == Node("close", "", "", 0, 0, <<>>)

\* membership of a character in a character class of the regex
InClass(c, cls) ==
    CASE cls = "nonslash" -> c # Slash
      [] cls = "digit"    -> c \in Digits
      [] cls = "dot"      -> c # "\n"
      [] cls = "a_slash"  -> c \in {"a", Slash}
      [] OTHER            -> FALSE

\* The inner expression of {name:re}, as the regex engine reads it.  The
\* expressions of the model are a class atom followed by a quantifier.
InnerNodes(re) ==
    CASE re = <<"[", "^", "/", "]", "+">>           -> [ok |-> TRUE, nodes |-> <<ClassNode("nonslash", 1, Inf)>>]
      [] re = <<"[", "0", "-", "9", "]", "+">>      -> [ok |-> TRUE, nodes |-> <<ClassNode("digit", 1, Inf)>>]
      [] re = <<"[", "0", "-", "9", "]">>           -> [ok |-> TRUE, nodes |-> <<ClassNode("digit", 1, 1)>>]
      [] re = <<".", "*">>                          -> [ok |-> TRUE, nodes |-> <<ClassNode("dot", 0, Inf)>>]
      [] re = <<".", "+">>                          -> [ok |-> TRUE, nodes |-> <<ClassNode("dot", 1, Inf)>>]
      [] re = <<"[", "0", "-", "9", "]", "{", "2", "}">> -> [ok |-> TRUE, nodes |-> <<ClassNode("digit", 2, 2)>>]
      [] re = <<"[", "a", "/", "]", "+">>           -> [ok |-> TRUE, nodes |-> <<ClassNode("a_slash", 1, Inf)>>]
      [] OTHER                                      -> [ok |-> FALSE, nodes |-> <<>>]

\* a capture group name the regex engine accepts: non-empty, not starting with a digit
ValidGroupName(name) == Len(name) > 0 /\ name[1] \notin Digits

DefaultVarRegex == <<"[", "^", "/", "]", "+">>

\* the character loop of compile_pattern over one segment, from position i
RECURSIVE CompileSegment(_, _)
CompileSegment(chars, i) ==
    IF i > Len(chars) THEN [ok |-> TRUE, nodes |-> <<>>, var_names |-> <<>>]
    ELSE
      LET c == chars[i] IN
      IF c = "*" THEN
        LET rest == CompileSegment(chars, i + 1)
        IN [rest EXCEPT !.nodes = <<ClassNode("nonslash", 0, Inf)>> \o @]
      ELSE IF c = "?" THEN
        LET rest == CompileSegment(chars, i + 1)
        IN [rest EXCEPT !.nodes = <<ClassNode("nonslash", 1, 1)>> \o @]
      ELSE IF c = "{" THEN
        LET j == FindFrom(chars, "}", i + 1) IN
        IF j = 0 THEN
          \* unmatched brace: an escaped literal brace
          LET rest == CompileSegment(chars, i + 1)
          IN [rest EXCEPT !.nodes = <<Lit("{")>> \o @]
        ELSE
          LET inside == SubSeq(chars, i + 1, j - 1)
              pos    == FindFrom(inside, ":", 1)
              name   == IF pos = 0 THEN inside ELSE SubSeq(inside, 1, pos - 1)
              re     == IF pos = 0 THEN DefaultVarRegex
                        ELSE SubSeq(inside, pos + 1, Len(inside))
              inner  == InnerNodes(re)
              rest   == CompileSegment(chars, j + 1)
          IN [ok    |-> rest.ok /\ inner.ok /\ ValidGroupName(name),
              nodes |-> <<GroupOpen(name)>> \o inner.nodes \o <<GroupClose>> \o rest.nodes,
              var_names |-> <<name>> \o rest.var_names]
      ELSE
        LET rest == CompileSegment(chars, i + 1)
        IN [rest EXCEPT !.nodes = <<Lit(c)>> \o @]

DoubleStar == <<"*", "*">>

\* the segment loop of compile_pattern, from segment k
RECURSIVE CompileSegments(_, _)
CompileSegments(segs, k) ==
    IF k > Len(segs) THEN [ok |-> TRUE, nodes |-> <<>>, var_names |-> <<>>]
    ELSE
      LET seg  == segs[k]
          rest == CompileSegments(segs, k + 1)
      IN IF seg = <<>> THEN rest
         ELSE IF seg = DoubleStar THEN
           [rest EXCEPT !.nodes = <<ClassNode("dot", 0, Inf)>> \o @]
         ELSE
           LET here == CompileSegment(seg, 1)
               sep  == IF k < Len(segs) THEN <<Lit(Slash)>> ELSE <<>>
           IN [ok    |-> here.ok /\ rest.ok,
               nodes |-> here.nodes \o sep \o rest.nodes,
               var_names |-> here.var_names \o rest.var_names]

NoDuplicates(s) == \A i, j \in 1..Len(s) : s[i] = s[j] => i = j

\* RoutePattern::compile_pattern; ok = FALSE is Regex::new's error
compile_pattern(pattern) ==
    LET lead == IF StartsWith(pattern, <<Slash>>) THEN <<Lit(Slash)>> ELSE <<>>
        body == CompileSegments(Split(pattern, Slash), 1)
    IN [ok      |-> body.ok /\ NoDuplicates(body.var_names),
        pattern |-> pattern,
        nodes   |-> lead \o body.nodes,
        var_names |-> body.var_names]

\* RoutePattern::from_pattern: the cached value is a clone of what compile_pattern
\* returned for the same string, so the result is that of compile_pattern
from_pattern(pattern) == compile_pattern(pattern)

\* the cache after from_pattern(pattern): only a successful compilation is stored
CacheAfter(cache, pattern) ==
    IF compile_pattern(pattern).ok THEN cache \cup {pattern} ELSE cache

\* whether nodes[k..] match path[i..] up to the end of the path ($)
RECURSIVE MatchFrom(_, _, _, _)
MatchFrom(nodes, k, path, i) ==
    IF k > Len(nodes) THEN i = Len(path) + 1
    ELSE
      LET n == nodes[k] IN
      CASE n.t = "lit" ->
             i <= Len(path) /\ path[i] = n.c /\ MatchFrom(nodes, k + 1, path, i + 1)
        [] n.t = "set" ->
             LET left == Len(path) - i + 1
                 top  == IF n.hi = Inf THEN left ELSE Min(n.hi, left)
             IN \E m \in n.lo..top :
                    /\ \A j \in i..(i + m - 1) : InClass(path[j], n.cls)
                    /\ MatchFrom(nodes, k + 1, path, i + m)
        [] OTHER -> MatchFrom(nodes, k + 1, path, i)

\* RoutePattern::matches: regex.is_match on the anchored expression
RoutePattern_matches(rp, path) == MatchFrom(rp.nodes, 1, path, 1)

NoCaptures == [ok |-> FALSE, caps |-> <<>>]

\* regex.captures: the leftmost-first match of nodes[k..] on path[i..] up to $,
\* a repetition trying its longest run first (m characters, then fewer);
\* group is the open group with the position it began at
RECURSIVE CapturesFrom(_, _, _, _, _, _)
CapturesFrom(nodes, k, path, i, m, group) ==
    IF k > Len(nodes) THEN [ok |-> i = Len(path) + 1, caps |-> <<>>]
    ELSE
      CASE nodes[k].t = "lit" ->
             IF i <= Len(path) /\ path[i] = nodes[k].c
             THEN CapturesFrom(nodes, k + 1, path, i + 1, Len(path), group)
             ELSE NoCaptures
        [] nodes[k].t = "set" ->
             IF m < nodes[k].lo THEN NoCaptures
             ELSE IF /\ nodes[k].hi = Inf \/ m <= nodes[k].hi
                     /\ i + m - 1 <= Len(path)
                     /\ \A j \in i..(i + m - 1) : InClass(path[j], nodes[k].cls)
                  THEN LET rest == CapturesFrom(nodes, k + 1, path, i + m, Len(path), group)
                       IN IF rest.ok THEN rest
                          ELSE CapturesFrom(nodes, k, path, i, m - 1, group)
                  ELSE CapturesFrom(nodes, k, path, i, m - 1, group)
        [] nodes[k].t = "open" ->
             CapturesFrom(nodes, k + 1, path, i, Len(path),
                          [name |-> nodes[k].name, from |-> i])
        [] OTHER ->
             LET rest == CapturesFrom(nodes, k + 1, path, i, Len(path), group)
             IN IF rest.ok
                THEN [ok   |-> TRUE,
                      caps |-> <<[name  |-> group.name,
                                  value |-> SubSeq(path, group.from, i - 1)]>> \o rest.caps]
                ELSE NoCaptures

\* caps.name(name).map(|m| m.as_str()): the values captured under the name
CapsNamed(caps, name) == {caps[i].value : i \in {j \in 1..Len(caps) : caps[j].name = name}}

NoMap == [some |-> FALSE, map |-> <<>>]

\* a matcher that returns the empty map for every matching path
RoutePattern_match_path_unfilled(rp, path) ==
    IF RoutePattern_matches(rp, path) THEN [some |-> TRUE, map |-> <<>>] ELSE NoMap

\* RoutePattern::match_path: None, or the map from each variable name that
\* took part in the match to what it captured
RoutePattern_match_path(rp, path) ==
    LET found == CapturesFrom(rp.nodes, 1, path, 1, Len(path), <<>>)
    IN IF found.ok
       THEN [some |-> TRUE,
             map  |-> [name \in {n \in {rp.var_names[i] : i \in 1..Len(rp.var_names)} :
                                    CapsNamed(found.caps, n) # {}}
                         |-> CHOOSE v \in CapsNamed(found.caps, name) : TRUE]]
       ELSE NoMap

(***************************************************************************)
(* config.rs: RouteRule.                                                   *)
(***************************************************************************)
IsPattern(p) == Contains(p, "{") \/ Contains(p, "*") \/ Contains(p, "?")

\* a literal branch without the segment boundary: a plain starts_with
LiteralMatchPlain(prefix, path) == StartsWith(path, prefix)

\* the literal branch of matches_prefix
LiteralMatch(prefix, path) == path = prefix \/ StartsWith(path, prefix \o <<Slash>>)

\* a matches_prefix that gives up on a pattern that does not compile
matches_prefix_strict(prefix, path) ==
    IF IsPattern(prefix)
    THEN from_pattern(prefix).ok /\ RoutePattern_matches(from_pattern(prefix), path)
    ELSE LiteralMatch(prefix, path)

\* RouteRule::matches_prefix
matches_prefix(prefix, path) ==
    IF IsPattern(prefix) THEN
      LET rp == from_pattern(prefix)
      IN IF rp.ok THEN RoutePattern_matches(rp, path)
         ELSE StartsWith(path, prefix)
    ELSE LiteralMatch(prefix, path)

\* RouteRule::matches
RouteRule_matches(rule, path) ==
    \E i \in 1..Len(rule.prefix) : matches_prefix(rule.prefix[i], path)

\* the patterns RouteRule::matches hands to from_pattern: it stops at the first
\* prefix that matches
RECURSIVE TouchedByMatches(_, _, _)
TouchedByMatches(prefixes, path, i) ==
    IF i > Len(prefixes) THEN {}
    ELSE (IF IsPattern(prefixes[i]) THEN {prefixes[i]} ELSE {})
         \cup (IF matches_prefix(prefixes[i], path) THEN {}
               ELSE TouchedByMatches(prefixes, path, i + 1))

\* p.trim().is_empty(): nothing but white space
IsBlank(s) == \A i \in 1..Len(s) : s[i] \in {" ", "\t", "\n", "\r"}

Strategies == {"robin", "random", "iphash"}

\* a validation that lets every strategy through
validate_any_strategy(rule) ==
    /\ Len(rule.prefix) > 0
    /\ \A i \in 1..Len(rule.prefix) : ~IsBlank(rule.prefix[i])
    /\ Len(rule.upstream) > 0
    /\ \A i \in 1..Len(rule.upstream) : ~IsBlank(rule.upstream[i])

\* RouteRule::validate
validate(rule) ==
    /\ Len(rule.prefix) > 0
    /\ \A i \in 1..Len(rule.prefix) : ~IsBlank(rule.prefix[i])
    /\ Len(rule.upstream) > 0
    /\ \A i \in 1..Len(rule.upstream) : ~IsBlank(rule.upstream[i])
    /\ rule.strategy \in Strategies

(***************************************************************************)
(* proxy.rs: find_best_match.                                              *)
(***************************************************************************)
WildcardBonus == 1000

\* the per-pattern score of find_best_match
PatternScore(p) == IF IsPattern(p) THEN WildcardBonus + Len(p) ELSE Len(p)

RECURSIVE MaxOver(_, _)
MaxOver(s, i) == IF i > Len(s) THEN 0 ELSE Max(PatternScore(s[i]), MaxOver(s, i + 1))

\* .map(score).max().unwrap_or(0)
RuleScore(rule) == MaxOver(rule.prefix, 1)

\* the loop of find_best_match from rule i on, carrying (best_match, best_score);
\* best_match is an index into rules, 0 for None
RECURSIVE BestFrom(_, _, _, _, _)
BestFrom(rules, path, i, best_match, best_score) ==
    IF i > Len(rules) THEN best_match
    ELSE IF RouteRule_matches(rules[i], path) /\ RuleScore(rules[i]) > best_score
         THEN BestFrom(rules, path, i + 1, i, RuleScore(rules[i]))
         ELSE BestFrom(rules, path, i + 1, best_match, best_score)

\* the same loop replacing the best rule on an equal score too (>= for >)
RECURSIVE BestFromLast(_, _, _, _, _)
BestFromLast(rules, path, i, best_match, best_score) ==
    IF i > Len(rules) THEN best_match
    ELSE IF RouteRule_matches(rules[i], path) /\ RuleScore(rules[i]) >= best_score
         THEN BestFromLast(rules, path, i + 1, i, RuleScore(rules[i]))
         ELSE BestFromLast(rules, path, i + 1, best_match, best_score)

find_best_match_last(rules, path) == BestFromLast(rules, path, 1, 0, 0)

\* find_best_match: the index of the chosen rule, 0 for None
find_best_match(rules, path) == BestFrom(rules, path, 1, 0, 0)

\* the patterns find_best_match hands to from_pattern
TouchedByBestMatch(rules, path) ==
    UNION {TouchedByMatches(rules[i].prefix, path, 1) : i \in 1..Len(rules)}

RECURSIVE CacheAll(_, _)
CacheAll(cache, patterns) ==
    IF patterns = {} THEN cache
    ELSE LET p == CHOOSE p \in patterns : TRUE
         IN CacheAll(CacheAfter(cache, p), patterns \ {p})

(***************************************************************************)
(* proxy.rs: the whitelist test of check_whitelist_middleware.             *)
(***************************************************************************)
\* the closure of whitelist.iter().any(..): one whitelist entry against match_path
WhitelistEntryHit(w, match_path) ==
    IF IsPattern(w) THEN
      LET rp == from_pattern(w)
      IN rp.ok /\ RoutePattern_matches(rp, match_path)
    ELSE match_path = w \/ StartsWith(match_path, w \o <<Slash>>)

WhitelistHit(whitelist, match_path) ==
    \E i \in 1..Len(whitelist) : WhitelistEntryHit(whitelist[i], match_path)

\* the patterns the any(..) hands to from_pattern: it stops at the first hit
RECURSIVE TouchedByWhitelist(_, _, _)
TouchedByWhitelist(whitelist, match_path, i) ==
    IF i > Len(whitelist) THEN {}
    ELSE (IF IsPattern(whitelist[i]) THEN {whitelist[i]} ELSE {})
         \cup (IF WhitelistEntryHit(whitelist[i], match_path) THEN {}
               ELSE TouchedByWhitelist(whitelist, match_path, i + 1))

ProxyPrefix == <<"/", "p", "r", "o", "x", "y">>

\* full_path.strip_prefix("/proxy").unwrap_or(full_path)
MatchPath(path) == StripPrefixOr(path, ProxyPrefix)

\* the whitelist test on the rule find_best_match returned (0 for None)
WhitelistOfBest(rules, best, match_path) ==
    /\ best # 0
    /\ rules[best].whitelist.some
    /\ WhitelistHit(rules[best].whitelist.list, match_path)

\* a decision taken on any matching rule in place of the best one
WhitelistDecisionAnyRule(rules, path) ==
    \E i \in 1..Len(rules) :
        /\ RouteRule_matches(rules[i], MatchPath(path))
        /\ WhitelistOfBest(rules, i, MatchPath(path))

\* the decision of check_whitelist_middleware: whether WhitelistBypass is inserted
WhitelistDecision(rules, path) ==
    WhitelistOfBest(rules, find_best_match(rules, MatchPath(path)), MatchPath(path))

(***************************************************************************)
(* auth.rs: Claims, AuthError, JwtAuth.                                    *)
(***************************************************************************)
\* the instant jsonwebtoken's validation compares exp with
Now == 100

\* the tokens of the model, by their text
Tokens ==
    [jwt_valid    |-> [wellformed |-> TRUE,  alg |-> "HS256", key |-> "k1", exp |-> Now + 1, sub |-> "u1", tenant_id |-> "t1"],
     jwt_anon     |-> [wellformed |-> TRUE,  alg |-> "HS256", key |-> "k1", exp |-> Now + 1, sub |-> "",   tenant_id |-> ""],
     jwt_expired  |-> [wellformed |-> TRUE,  alg |-> "HS256", key |-> "k1", exp |-> Now - 1, sub |-> "u1", tenant_id |-> "t1"],
     jwt_badsig   |-> [wellformed |-> TRUE,  alg |-> "HS256", key |-> "k2", exp |-> Now + 1, sub |-> "u1", tenant_id |-> "t1"],
     jwt_hs512    |-> [wellformed |-> TRUE,  alg |-> "HS512", key |-> "k1", exp |-> Now + 1, sub |-> "u1", tenant_id |-> "t1"],
     jwt_garbage  |-> [wellformed |-> FALSE, alg |-> "HS256", key |-> "k1", exp |-> Now + 1, sub |-> "u1", tenant_id |-> "t1"],
     jwt_ctl      |-> [wellformed |-> TRUE,  alg |-> "HS256", key |-> "k1", exp |-> Now + 1, sub |-> "u\n1", tenant_id |-> "t1"]]

TokenNames == DOMAIN Tokens

Bearer == "Bearer "

Space == " "

\* str::trim_start_matches("Bearer "): every leading repetition is removed
RECURSIVE TrimStartMatches(_, _)
TrimStartMatches(s, pat) ==
    IF Len(s) > 0 /\ s[1] = pat THEN TrimStartMatches(Tail(s), pat) ELSE s

RECURSIVE TrimStart(_)
TrimStart(s) == IF Len(s) > 0 /\ s[1] = Space THEN TrimStart(Tail(s)) ELSE s

RECURSIVE TrimEnd(_)
TrimEnd(s) ==
    IF Len(s) > 0 /\ s[Len(s)] = Space THEN TrimEnd(SubSeq(s, 1, Len(s) - 1)) ELSE s

\* str::trim
Trim(s) == TrimEnd(TrimStart(s))

EmptyClaims == [sub |-> "", exp |-> 0, tenant_id |-> ""]

\* a decode that does not verify the signature
decode_any_key(token, key) ==
    IF Len(token) = 1 /\ token[1] \in TokenNames THEN
      LET t == Tokens[token[1]]
      IN IF t.wellformed /\ t.alg = "HS256" /\ t.exp >= Now
         THEN [ok |-> TRUE,
               claims |-> [sub |-> t.sub, exp |-> t.exp, tenant_id |-> t.tenant_id]]
         ELSE [ok |-> FALSE, claims |-> EmptyClaims]
    ELSE [ok |-> FALSE, claims |-> EmptyClaims]

\* a decode with validate_exp off
decode_no_exp(token, key) ==
    IF Len(token) = 1 /\ token[1] \in TokenNames THEN
      LET t == Tokens[token[1]]
      IN IF t.wellformed /\ t.alg = "HS256" /\ t.key = key
         THEN [ok |-> TRUE,
               claims |-> [sub |-> t.sub, exp |-> t.exp, tenant_id |-> t.tenant_id]]
         ELSE [ok |-> FALSE, claims |-> EmptyClaims]
    ELSE [ok |-> FALSE, claims |-> EmptyClaims]

\* jsonwebtoken::decode under Validation::new(HS256) with validate_exp
decode(token, key) ==
    IF Len(token) = 1 /\ token[1] \in TokenNames THEN
      LET t == Tokens[token[1]]
      IN IF t.wellformed /\ t.alg = "HS256" /\ t.key = key /\ t.exp >= Now
         THEN [ok |-> TRUE,
               claims |-> [sub |-> t.sub, exp |-> t.exp, tenant_id |-> t.tenant_id]]
         ELSE [ok |-> FALSE, claims |-> EmptyClaims]
    ELSE [ok |-> FALSE, claims |-> EmptyClaims]

NoJwt == [present |-> FALSE, claims |-> EmptyClaims]

AuthResult(ok, err, claims, stored) ==
    [ok |-> ok, err |-> err, claims |-> claims, stored |-> stored]

\* an extractor that looks at the header before the settings
from_request_parts_header_first(parts) ==
    IF parts.whitelist THEN AuthResult(TRUE, "", EmptyClaims, NoJwt)
    ELSE IF ~(parts.auth.present /\ parts.auth.ascii)
         THEN AuthResult(FALSE, "MissingHeader", EmptyClaims, NoJwt)
    ELSE IF ~parts.settings.present THEN AuthResult(FALSE, "ConfigMissing", EmptyClaims, NoJwt)
    ELSE IF ~(Len(parts.auth.value) > 0 /\ parts.auth.value[1] = Bearer)
         THEN AuthResult(FALSE, "InvalidToken", EmptyClaims, NoJwt)
    ELSE
      LET token == Trim(TrimStartMatches(parts.auth.value, Bearer))
          data  == decode(token, parts.settings.jwt_decoding_key)
      IN IF data.ok
         THEN AuthResult(TRUE, "", data.claims, [present |-> TRUE, claims |-> data.claims])
         ELSE AuthResult(FALSE, "DecodeError", EmptyClaims, NoJwt)

\* JwtAuth::from_request_parts.  parts: [whitelist, settings, auth]; the result
\* holds the Ok/Err value and what was inserted into parts.extensions.
from_request_parts(parts) ==
    IF parts.whitelist THEN AuthResult(TRUE, "", EmptyClaims, NoJwt)
    ELSE IF ~parts.settings.present THEN AuthResult(FALSE, "ConfigMissing", EmptyClaims, NoJwt)
    ELSE IF ~(parts.auth.present /\ parts.auth.ascii)
         THEN AuthResult(FALSE, "MissingHeader", EmptyClaims, NoJwt)
    ELSE IF ~(Len(parts.auth.value) > 0 /\ parts.auth.value[1] = Bearer)
         THEN AuthResult(FALSE, "InvalidToken", EmptyClaims, NoJwt)
    ELSE
      LET token == Trim(TrimStartMatches(parts.auth.value, Bearer))
          data  == decode(token, parts.settings.jwt_decoding_key)
      IN IF data.ok
         THEN AuthResult(TRUE, "", data.claims, [present |-> TRUE, claims |-> data.claims])
         ELSE AuthResult(FALSE, "DecodeError", EmptyClaims, NoJwt)

\* AuthError::into_response
into_response(err) ==
    CASE err = "MissingHeader" -> [status |-> 401, body |-> "Missing authorization header"]
      [] err = "InvalidToken"  -> [status |-> 401, body |-> "Invalid token"]
      [] err = "DecodeError"   -> [status |-> 401, body |-> "Token decode error"]
      [] err = "ConfigMissing" -> [status |-> 500, body |-> "Config missing"]

(***************************************************************************)
(* rate_limit.rs: RateLimits.  A governor limiter with Quota::per_second(n) *)
(* admits a burst of n and regains one cell every 1/n second: a bucket of   *)
(* n cells.  A key the keyed limiter has not seen has a full bucket.        *)
(***************************************************************************)
\* NonZeroU32::new(qps).unwrap_or(NonZeroU32::new(1).unwrap())
NonZeroOr1(qps) == IF qps = 0 THEN 1 ELSE qps

\* init_rate_limits
init_rate_limits(s) ==
    [global     |-> NonZeroOr1(s.global_qps),
     per_ip     |-> <<>>,
     global_cap |-> NonZeroOr1(s.global_qps),
     client_cap |-> NonZeroOr1(s.client_qps)]

Loopback == "127.0.0.1"

\* the cells left in the per-IP bucket of key ip
BucketLevel(l, ip) ==
    IF \E i \in 1..Len(l.per_ip) : l.per_ip[i].key = ip
    THEN (CHOOSE e \in {l.per_ip[i] : i \in 1..Len(l.per_ip)} : e.key = ip).cells
    ELSE l.client_cap

\* the keyed store with the bucket of key ip set to cells
WithBucket(l, ip, cells) ==
    IF \E i \in 1..Len(l.per_ip) : l.per_ip[i].key = ip
    THEN [l EXCEPT !.per_ip = [i \in 1..Len(l.per_ip) |->
                                 IF l.per_ip[i].key = ip
                                 THEN [key |-> ip, cells |-> cells]
                                 ELSE l.per_ip[i]]]
    ELSE [l EXCEPT !.per_ip = Append(@, [key |-> ip, cells |-> cells])]

\* req.extensions().get::<ConnectInfo<IpAddr>>(): an extension is found by its type
ConnectInfoIpAddr(r) ==
    IF r.connect_info.type = "IpAddr"
    THEN [some |-> TRUE, ip |-> r.connect_info.ip]
    ELSE [some |-> FALSE, ip |-> Loopback]

\* the client_ip of rate_limit_layer
ClientIp(r) == LET ci == ConnectInfoIpAddr(r) IN IF ci.some THEN ci.ip ELSE Loopback

\* a check that takes no cell
GlobalTakeNothing(l) == l

\* limits.global.check(): the limiter after a successful check
GlobalTake(l) == [l EXCEPT !.global = @ - 1]

\* limits.per_ip.check_key(&client_ip): the limiter after a successful check
ClientTake(l, ip) == WithBucket(l, ip, BucketLevel(l, ip) - 1)

(***************************************************************************)
(* load_balancer: the registry of proxy.rs and the balancers' select.      *)
(***************************************************************************)
\* upstreams.join(",")
RECURSIVE Join(_, _)
Join(parts, sep) ==
    IF Len(parts) = 0 THEN <<>>
    ELSE IF Len(parts) = 1 THEN parts[1]
    ELSE parts[1] \o <<sep>> \o Join(Tail(parts), sep)

\* format!("{}:{}", strategy, upstreams.join(","))
BalancerKey(upstreams, strategy) == <<strategy, ":">> \o Join(upstreams, ",")

\* format!("{}", i) of a usize
RECURSIVE Decimal(_)
Decimal(i) ==
    IF i < 10 THEN <<CHOOSE d \in Digits : d = ToString(i)>>
    ELSE Decimal(i \div 10) \o Decimal(i % 10)

\* Option<String>::None of a select
None == <<>>

\* --- round_robin.rs ---
\* AtomicUsize: fetch_add wraps around at 2^UsizeBits
UsizeModulus == 2 ^ UsizeBits

\* an increment that overflows instead of wrapping
fetch_add_overflowing(current) == current + 1

fetch_add(current) == (current + 1) % UsizeModulus

\* RoundRobinBalancer::new
RoundRobinBalancer_new(upstreams) ==
    [kind |-> "RoundRobin", state |-> upstreams, current |-> 0]

\* a select that ignores the counter
RoundRobinFirst(ups, current) == IF Len(ups) = 0 THEN None ELSE ups[1]

\* select on the loaded list with the counter value fetch_add returned:
\* ups.get(index) is None when the index is out of range
RoundRobinSkipFirst(ups, current) ==
    IF Len(ups) = 0 THEN None
    ELSE ups[((current + 1) % Len(ups)) + 1]

RoundRobinSelect(ups, current) ==
    IF Len(ups) = 0 THEN None
    ELSE LET index == current % Len(ups)
         IN IF index + 1 \in DOMAIN ups THEN ups[index + 1] ELSE None

\* --- weighted_random.rs ---
WeightedUpstream(url, weight) == [url |-> url, weight |-> weight]

\* the loop of WeightedRandomBalancerInner::new: only positive weights are pushed
RECURSIVE PrefixSumsFrom(_, _, _)
PrefixSumsFrom(upstreams, i, total_weight) ==
    IF i > Len(upstreams) THEN <<>>
    ELSE IF upstreams[i].weight > 0
         THEN <<total_weight + upstreams[i].weight>>
              \o PrefixSumsFrom(upstreams, i + 1, total_weight + upstreams[i].weight)
         ELSE PrefixSumsFrom(upstreams, i + 1, total_weight)

WithPrefixSums(upstreams, prefix_sums) ==
    [upstreams    |-> upstreams,
     prefix_sums  |-> prefix_sums,
     total_weight |-> IF Len(prefix_sums) = 0 THEN 0 ELSE prefix_sums[Len(prefix_sums)]]

\* WeightedRandomBalancerInner::new
Inner_new(upstreams) == WithPrefixSums(upstreams, PrefixSumsFrom(upstreams, 1, 0))

\* prefix_sums.binary_search(&x) on a strictly increasing vector: Ok(idx) where
\* the element is x, Err(idx) where x would be inserted; both are the number of
\* elements below x
binary_search(prefix_sums, x) ==
    Cardinality({j \in DOMAIN prefix_sums : prefix_sums[j] < x})

\* WeightedRandomBalancerInner::select with the draw random_weight
Inner_select(inner, random_weight) ==
    inner.upstreams[binary_search(inner.prefix_sums, random_weight) + 1].url

\* a select that answers with the first upstream when no weight is positive
Inner_select_first_on_zero(inner) ==
    IF Len(inner.upstreams) = 0 THEN {[draw |-> 0, result |-> None]}
    ELSE IF inner.total_weight = 0
         THEN {[draw |-> 0, result |-> inner.upstreams[1].url]}
         ELSE {[draw |-> r, result |-> Inner_select(inner, r)] : r \in 1..inner.total_weight}

\* the (draw, result) pairs WeightedRandomBalancerInner::select can produce:
\* None, or the choice for a draw of gen_range(1..=total_weight)
Inner_select_outcomes(inner) ==
    IF Len(inner.upstreams) = 0 \/ inner.total_weight = 0
    THEN {[draw |-> 0, result |-> None]}
    ELSE {[draw |-> r, result |-> Inner_select(inner, r)] : r \in 1..inner.total_weight}

\* WeightedRandomBalancer::new
WeightedRandomBalancer_new(upstreams) ==
    [kind |-> "WeightedRandom", state |-> Inner_new(upstreams), current |-> 0]

\* --- ip_hash.rs ---
\* BalancerState::hash: DefaultHasher over the key string
hash(key) == hasher[key]

\* format!("{}#{}", upstream, i)
RingKey(upstream, i) == upstream \o <<"#">> \o Decimal(i)

\* BTreeMap::insert: a key already present gets the new value
Insert(ring, k, v) == [x \in DOMAIN ring \cup {k} |-> IF x = k THEN v ELSE ring[x]]

\* for i in 0..virtual_nodes
RECURSIVE InsertNodes(_, _, _, _)
InsertNodes(ring, upstream, i, virtual_nodes) ==
    IF i >= virtual_nodes THEN ring
    ELSE InsertNodes(Insert(ring, hash(RingKey(upstream, i)), upstream),
                     upstream, i + 1, virtual_nodes)

\* for upstream in &upstreams
RECURSIVE BuildRing(_, _, _, _)
BuildRing(ring, upstreams, j, virtual_nodes) ==
    IF j > Len(upstreams) THEN ring
    ELSE BuildRing(InsertNodes(ring, upstreams[j], 0, virtual_nodes),
                   upstreams, j + 1, virtual_nodes)

\* BalancerState::build
BalancerState_build(upstreams, virtual_nodes) ==
    [hash_ring     |-> BuildRing(<<>>, upstreams, 1, virtual_nodes),
     upstreams     |-> upstreams,
     virtual_nodes |-> virtual_nodes]

MinOf(s) == CHOOSE x \in s : \A y \in s : x <= y

\* BalancerState::find_upstream: range(hash..).next(), else iter().next()
find_upstream_first(ring, h) ==
    IF DOMAIN ring = {} THEN None ELSE ring[MinOf(DOMAIN ring)]

find_upstream(ring, h) ==
    IF DOMAIN ring = {} THEN None
    ELSE IF \E k \in DOMAIN ring : k >= h
         THEN ring[MinOf({k \in DOMAIN ring : k >= h})]
         ELSE ring[MinOf(DOMAIN ring)]

\* Option<&SocketAddr>
NoAddr == [some |-> FALSE, ip |-> ""]

SomeAddr(ip) == [some |-> TRUE, ip |-> ip]

\* ip_str of IpHashBalancer::select
ip_str(client_ip) == IF client_ip.some THEN <<client_ip.ip>> ELSE <<Loopback>>

\* IpHashBalancer::select on the loaded state
IpHashSelect(state, client_ip) == find_upstream(state.hash_ring, hash(ip_str(client_ip)))

\* IpHashBalancer::new: 150 virtual nodes per upstream, VirtualNodes in the model
IpHashBalancer_new(upstreams) ==
    [kind |-> "IpHash", state |-> BalancerState_build(upstreams, VirtualNodes),
     current |-> 0]

\* --- proxy.rs: the registry ---
\* the balancer get_or_create_balancer constructs for a strategy:
\* "random" gives every upstream the weight 1
NewBalancer(upstreams, strategy) ==
    CASE strategy = "random" ->
           WeightedRandomBalancer_new([i \in DOMAIN upstreams |->
                                          WeightedUpstream(upstreams[i], 1)])
      [] strategy = "iphash" -> IpHashBalancer_new(upstreams)
      [] OTHER               -> RoundRobinBalancer_new(upstreams)

\* the registry is a set of [key, bal] entries, one per key
HasBalancer(reg, key) == \E e \in reg : e.key = key

\* get_or_create_balancer: the registry after entry(key).or_insert_with(..)
get_or_create_balancer(reg, upstreams, strategy) ==
    IF HasBalancer(reg, BalancerKey(upstreams, strategy)) THEN reg
    ELSE reg \cup {[key |-> BalancerKey(upstreams, strategy),
                    bal |-> NewBalancer(upstreams, strategy)]}

BalancerOf(reg, key) == CHOOSE e \in reg : e.key = key

\* LoadBalancer::select in one piece: the (upstream, balancer afterwards) pairs
\* a call can produce
SelectOutcomes(b, client_ip) ==
    CASE b.kind = "RoundRobin" ->
           {[upstream |-> RoundRobinSelect(b.state, b.current),
             after    |-> IF Len(b.state) = 0 THEN b
                          ELSE [b EXCEPT !.current = fetch_add(@)]]}
      [] b.kind = "WeightedRandom" ->
           {[upstream |-> o.result, after |-> b] : o \in Inner_select_outcomes(b.state)}
      [] OTHER ->
           {[upstream |-> IpHashSelect(b.state, client_ip), after |-> b]}

\* reconstruct_forward_path
RECURSIVE ForwardFrom(_, _, _)
ForwardFrom(original_path, prefixes, i) ==
    IF i > Len(prefixes) THEN original_path
    ELSE IF StartsWith(original_path, prefixes[i])
         THEN StripPrefixOr(original_path, prefixes[i])
         ELSE ForwardFrom(original_path, prefixes, i + 1)

reconstruct_forward_path(original_path, prefixes) == ForwardFrom(original_path, prefixes, 1)

\* the patterns extract_variables hands to from_pattern: the first matching prefix
RECURSIVE TouchedByExtract(_, _, _)
TouchedByExtract(prefixes, path, i) ==
    IF i > Len(prefixes) THEN {}
    ELSE IF matches_prefix(prefixes[i], path)
         THEN {prefixes[i]}
         ELSE (IF IsPattern(prefixes[i]) THEN {prefixes[i]} ELSE {})
              \cup TouchedByExtract(prefixes, path, i + 1)

(***************************************************************************)
(* The configuration and the requests of the model.                        *)
(***************************************************************************)
NoWhitelist == [some |-> FALSE, list |-> <<>>]

SomeWhitelist(list) == [some |-> TRUE, list |-> list]

Rule(prefix, upstream, strategy, whitelist) ==
    [prefix |-> prefix, upstream |-> upstream, strategy |-> strategy,
     whitelist |-> whitelist]

S_user == <<"/", "u", "s", "e", "r">>

S_users == <<"/", "u", "s", "e", "r", "s">>

S_user_profile == <<"/", "u", "s", "e", "r", "/", "p", "r", "o", "f", "i", "l", "e">>

S_proxy_users == <<"/", "p", "r", "o", "x", "y", "/", "u", "s", "e", "r", "s">>

S_nope == <<"/", "n", "o", "p", "e">>

S_api_user_id == <<"/", "a", "p", "i", "/", "u", "s", "e", "r", "/", "{", "i", "d", ":", "[", "0", "-", "9", "]", "+", "}">>

S_api_user_42 == <<"/", "a", "p", "i", "/", "u", "s", "e", "r", "/", "4", "2">>

S_public == <<"/", "p", "u", "b", "l", "i", "c">>

S_private == <<"/", "p", "r", "i", "v", "a", "t", "e">>

S_public_all == <<"/", "p", "u", "b", "l", "i", "c", "/", "*", "*">>

S_public_docs == <<"/", "p", "u", "b", "l", "i", "c", "/", "d", "o", "c", "s">>

S_public_docs_x == <<"/", "p", "u", "b", "l", "i", "c", "/", "d", "o", "c", "s", "/", "x">>

S_public_img == <<"/", "p", "u", "b", "l", "i", "c", "/", "i", "m", "g">>

\* the route table of the model: every rule passes validate
FullTable ==
    << Rule(<<S_user, S_users>>, <<<<"http://u:1">>>>, "robin", NoWhitelist),
       Rule(<<S_api_user_id>>, <<<<"http://a:1">>, <<"http://b:2">>>>, "robin", NoWhitelist),
       Rule(<<S_public, S_private>>, <<<<"http://p:1">>, <<"http://p:2">>>>, "random",
            SomeWhitelist(<<S_public_all>>)),
       Rule(<<S_public_docs>>, <<<<"http://d:1">>>>, "robin", NoWhitelist) >>

\* load_route_rules().unwrap_or_default(): the table of the file, or none
Tables == {FullTable, <<>>}

Paths == {S_user_profile, S_proxy_users, S_nope, S_api_user_42, S_private,
          S_public_docs_x, S_public_img}

Header(value) == [present |-> TRUE, ascii |-> TRUE, value |-> value]

NoHeader == [present |-> FALSE, ascii |-> TRUE, value |-> <<>>]

\* a header value with a byte outside visible ASCII: HeaderValue::to_str fails on it
OpaqueHeader(value) == [present |-> TRUE, ascii |-> FALSE, value |-> value]

AuthHeaders ==
    {NoHeader,
     Header(<<Bearer, "jwt_valid">>),
     Header(<<Bearer, "jwt_anon">>),
     Header(<<Bearer, "jwt_expired">>),
     Header(<<Bearer, "jwt_badsig">>),
     Header(<<"jwt_valid">>),
     Header(<<Bearer, Bearer, "jwt_valid">>),
     Header(<<Bearer, Space, "jwt_valid">>),
     OpaqueHeader(<<"Basic ", "x">>)}

Peers == {"10.0.0.1", "10.0.0.2"}

Settings(key, global_qps, client_qps) ==
    [present |-> TRUE, jwt_decoding_key |-> key,
     global_qps |-> global_qps, client_qps |-> client_qps]

\* req.uri().query(): None without a `?`, Some(text) with one
NoQuery == [some |-> FALSE, text |-> <<>>]

Query(text) == [some |-> TRUE, text |-> text]

\* the headers `uid` and `tenant_id` as the client sent them ("": not sent)
ClientHeaders(uid, tenant_id) == [uid |-> uid, tenant_id |-> tenant_id]

\* uid and tenant_id are the request's headers of these names; received is
\* history: what they were when the request arrived; hops counts the redirects
\* the HTTP client has followed for the request
NoReq ==
    [method |-> "GET", path |-> <<>>, query |-> NoQuery, auth |-> NoHeader,
     connect_info |-> [type |-> "SocketAddr", ip |-> Loopback],
     whitelist |-> FALSE, jwt |-> NoJwt, uid |-> "", tenant_id |-> "",
     client_ip |-> "", target |-> <<>>, received |-> ClientHeaders("", ""),
     hops |-> 0]

\* a request as the server hands it to the router:
\* into_make_service_with_connect_info::<SocketAddr> has stored the peer address
NewReq(path, auth, peer) ==
    [NoReq EXCEPT !.path = path, !.auth = auth,
                  !.connect_info = [type |-> "SocketAddr", ip |-> peer]]

NoResp == [status |-> 0, body |-> "", path |-> <<>>, by |-> ""]

Response(status, body, path, by) ==
    [status |-> status, body |-> body, path |-> path, by |-> by]

NoCall == [fn |-> "", args |-> <<>>, result |-> <<>>]

(***************************************************************************)
(* proxy.rs router() and main.rs: the middleware chain.                    *)
(***************************************************************************)
\* a router adding check_whitelist_middleware before JwtAuth
RouterLayersSwapped ==
    <<"propagate_auth_headers", "check_whitelist_middleware", "JwtAuth",
      "rate_limit_layer">>

\* the layers of router(), in the order the code adds them
RouterLayers ==
    <<"propagate_auth_headers", "JwtAuth", "check_whitelist_middleware",
      "rate_limit_layer">>

Reverse(s) == [i \in 1..Len(s) |-> s[Len(s) + 1 - i]]

\* a layer added later wraps the layers added before it and runs first
Chain == Reverse(RouterLayers) \o <<"proxy_handler">>

StageIndex(stage) == CHOOSE i \in 1..Len(Chain) : Chain[i] = stage

\* next.run(req): the stage that runs after a stage of the chain
StageAfter(stage) == Chain[StageIndex(stage) + 1]

(***************************************************************************)
(* The stages of a request.                                                *)
(***************************************************************************)
\* a layer that asks the per-IP bucket before the global one
RateLimitClientFirst(l, r) ==
    LET ip == ClientIp(r)
    IN IF BucketLevel(l, ip) = 0
       THEN [limits |-> l, verdict |-> "client", client_ip |-> ip]
       ELSE IF ClientTake(l, ip).global = 0
            THEN [limits |-> ClientTake(l, ip), verdict |-> "global", client_ip |-> ip]
            ELSE [limits |-> GlobalTake(ClientTake(l, ip)), verdict |-> "pass",
                  client_ip |-> ip]

\* rate_limit_layer up to its return or its next.run(req):
\* the limiter afterwards, the verdict and the client_ip it computed
RateLimitOutcome(l, r) ==
    IF l.global = 0
    THEN [limits |-> l, verdict |-> "global", client_ip |-> ""]
    ELSE LET l1 == GlobalTake(l)
             ip == ClientIp(r)
         IN IF BucketLevel(l1, ip) = 0
            THEN [limits |-> l1, verdict |-> "client", client_ip |-> ip]
            ELSE [limits |-> ClientTake(l1, ip), verdict |-> "pass", client_ip |-> ip]

TooManyRequests(verdict) ==
    Response(429,
             IF verdict = "global" THEN "Too Many Requests (global)"
             ELSE "Too Many Requests (client)",
             <<>>, "rate_limit_layer")

S_root == <<"/">>

S_metrics == <<"/", "m", "e", "t", "r", "i", "c", "s">>

\* the routes of main.rs: `/` and `/metrics` answer GET, every other path is
\* the `/*path` route of proxy::router() behind its layers
Entry(method, path) ==
    IF path \in {S_root, S_metrics}
    THEN (IF method # "GET" THEN "method_not_allowed"
          ELSE IF path = S_root THEN "index" ELSE "metrics_handler")
    ELSE Chain[1]

\* a request as it arrives, with its method and query string
Req(method, path, query, auth, peer) ==
    [NewReq(path, auth, peer) EXCEPT !.method = method, !.query = query]

\* a request that arrives with headers `uid` and `tenant_id` of the client's own
WithHeaders(r, uid, tenant_id) ==
    [r EXCEPT !.uid = uid, !.tenant_id = tenant_id,
              !.received = ClientHeaders(uid, tenant_id)]

\* a request arrives: prometheus_middleware notes method and path and runs the router
AcceptRequest(r, max) ==
    /\ pc = "idle"
    /\ served < max
    /\ req' = r
    /\ pc' = Entry(r.method, r.path)
    /\ served' = served + 1
    /\ trace' = <<>>
    /\ resp' = NoResp
    /\ outbound' = <<>>
    /\ UNCHANGED <<route_rules, settings, limits, pattern_cache, balancers,
                   global_passed, clients, call, hasher, metrics, direct>>

\* one of the given requests arrives
AcceptWith(requests, max) == \E r \in requests : AcceptRequest(r, max)

\* a GET without a query string arrives
Accept(paths, auths, peers, max) ==
    \E path \in paths, auth \in auths, peer \in peers :
       AcceptRequest(NewReq(path, auth, peer), max)

rate_limit_layer ==
    /\ pc = "rate_limit_layer"
    /\ LET o == RateLimitOutcome(limits, req)
       IN /\ limits' = o.limits
          /\ req' = [req EXCEPT !.client_ip = o.client_ip]
          /\ global_passed' = IF o.verdict = "global" THEN global_passed
                              ELSE global_passed + 1
          /\ clients' = IF o.verdict = "pass" THEN clients \cup {req.connect_info.ip}
                        ELSE clients
          /\ IF o.verdict = "pass"
             THEN pc' = StageAfter("rate_limit_layer") /\ resp' = resp
             ELSE pc' = "done" /\ resp' = TooManyRequests(o.verdict)
    /\ trace' = Append(trace, "rate_limit_layer")
    /\ UNCHANGED <<route_rules, settings, pattern_cache, balancers, outbound,
                   served, call,
                   hasher, metrics, direct>>

\* the patterns the whitelist test hands to from_pattern
TouchedByWhitelistOfBest(rules, best, match_path) ==
    IF best # 0 /\ rules[best].whitelist.some
    THEN TouchedByWhitelist(rules[best].whitelist.list, match_path, 1)
    ELSE {}

\* the patterns check_whitelist_middleware hands to from_pattern
TouchedByWhitelistStage(rules, path) ==
    TouchedByBestMatch(rules, MatchPath(path))
    \cup TouchedByWhitelistOfBest(rules, find_best_match(rules, MatchPath(path)),
                                  MatchPath(path))

check_whitelist_middleware ==
    /\ pc = "check_whitelist_middleware"
    /\ req' = [req EXCEPT !.whitelist = WhitelistDecision(route_rules, req.path)]
    /\ pattern_cache' = CacheAll(pattern_cache,
                                 TouchedByWhitelistStage(route_rules, req.path))
    /\ pc' = StageAfter("check_whitelist_middleware")
    /\ trace' = Append(trace, "check_whitelist_middleware")
    /\ UNCHANGED <<route_rules, settings, limits, balancers, resp, outbound,
                   served, global_passed, clients, call,
                   hasher, metrics, direct>>

\* middleware::from_extractor::<JwtAuth>(): a rejection is the response,
\* otherwise the request goes on with what the extractor stored
JwtAuth ==
    /\ pc = "JwtAuth"
    /\ LET r == from_request_parts([whitelist |-> req.whitelist,
                                    settings  |-> settings,
                                    auth      |-> req.auth])
       IN IF r.ok
          THEN /\ req' = [req EXCEPT !.jwt = r.stored]
               /\ pc' = StageAfter("JwtAuth")
               /\ resp' = resp
          ELSE /\ req' = req
               /\ pc' = "done"
               /\ resp' = LET e == into_response(r.err)
                          IN Response(e.status, e.body, <<>>, "JwtAuth")
    /\ trace' = Append(trace, "JwtAuth")
    /\ UNCHANGED <<route_rules, settings, limits, pattern_cache, balancers,
                   outbound, served, global_passed, clients, call,
                   hasher, metrics, direct>>

\* str::as_bytes of the subjects and tenants of the model
as_bytes(src) ==
    CASE src = ""      -> <<>>
      [] src = "u1"    -> <<117, 49>>
      [] src = "t1"    -> <<116, 49>>
      [] src = "u\n1"  -> <<117, 10, 49>>
      [] src = "admin" -> <<97, 100, 109, 105, 110>>
      [] src = "root"  -> <<114, 111, 111, 116>>

\* the bytes a header value may hold
is_valid(b) == (b >= 32 /\ b # 127) \/ b = 9

\* HeaderValue::from_str: an error if a byte is not allowed
HeaderValue_from_str(src) ==
    [ok    |-> \A i \in 1..Len(as_bytes(src)) : is_valid(as_bytes(src)[i]),
     value |-> src]

\* if !claim.is_empty() { if let Ok(v) = HeaderValue::from_str(&claim) {
\* req.headers_mut().insert(name, v) } }: the header afterwards
insert_claim(current, claim) ==
    IF claim # "" /\ HeaderValue_from_str(claim).ok
    THEN HeaderValue_from_str(claim).value
    ELSE current

propagate_auth_headers ==
    /\ pc = "propagate_auth_headers"
    /\ LET uid       == IF req.jwt.present THEN req.jwt.claims.sub ELSE ""
           tenant_id == IF req.jwt.present THEN req.jwt.claims.tenant_id ELSE ""
       IN req' = [req EXCEPT !.uid = insert_claim(@, uid),
                             !.tenant_id = insert_claim(@, tenant_id)]
    /\ pc' = StageAfter("propagate_auth_headers")
    /\ trace' = Append(trace, "propagate_auth_headers")
    /\ UNCHANGED <<route_rules, settings, limits, pattern_cache, balancers, resp,
                   outbound, served, global_passed, clients, call,
                   hasher, metrics, direct>>

NoUpstream(match_path) ==
    Response(502, "No upstream configured for path: ", match_path, "proxy_handler")

\* a handler that sends an unrouted request to a default upstream
NoRouteToDefault(match_path) ==
    /\ req' = [req EXCEPT !.target = <<"http://default:1">> \o match_path]
    /\ resp' = resp
    /\ pc' = "read_body"
    /\ UNCHANGED balancers

\* proxy_handler, no rule found: the 502 reply
NoRoute(match_path) ==
    /\ resp' = NoUpstream(match_path)
    /\ pc' = "done"
    /\ UNCHANGED <<req, balancers>>

\* req.uri().query().map(|q| format!("?{}", q)).unwrap_or_default()
query_suffix(query) == IF query.some THEN <<"?">> \o query.text ELSE <<>>

\* the outbound URL: format!("{}{}{}", upstream, forward_path, query_suffix),
\* the upstream being select's or, on None, the first of the rule
OutboundUrl(selected, rule, match_path, query) ==
    (IF selected = None THEN rule.upstream[1] ELSE selected)
    \o reconstruct_forward_path(match_path, rule.prefix)
    \o query_suffix(query)

\* proxy_handler with the balancer of the rule: select(None), then the URL
SelectAndBuild(match_path, rule, reg, entry) ==
    /\ \E o \in SelectOutcomes(entry.bal, NoAddr) :
          /\ balancers' = (reg \ {entry}) \cup {[entry EXCEPT !.bal = o.after]}
          /\ req' = [req EXCEPT !.target = OutboundUrl(o.upstream, rule, match_path,
                                                       req.query)]
    /\ resp' = resp
    /\ pc' = "read_body"

\* proxy_handler with the registry after get_or_create_balancer
RouteVia(match_path, rule, reg) ==
    SelectAndBuild(match_path, rule, reg,
                   BalancerOf(reg, BalancerKey(rule.upstream, rule.strategy)))

\* proxy_handler with the rule found
RouteTo(match_path, rule) ==
    RouteVia(match_path, rule,
             get_or_create_balancer(balancers, rule.upstream, rule.strategy))

\* the patterns proxy_handler hands to from_pattern
TouchedByHandler(rules, best, match_path) ==
    TouchedByBestMatch(rules, match_path)
    \cup (IF best = 0 THEN {} ELSE TouchedByExtract(rules[best].prefix, match_path, 1))

\* proxy_handler with the outcome of find_best_match (0 for None)
HandleWith(match_path, best) ==
    /\ IF best = 0 THEN NoRoute(match_path)
       ELSE RouteTo(match_path, route_rules[best])
    /\ pattern_cache' = CacheAll(pattern_cache,
                                 TouchedByHandler(route_rules, best, match_path))

\* proxy_handler up to its first await: the rule, the upstream, the outbound URL
proxy_handler ==
    /\ pc = "proxy_handler"
    /\ HandleWith(MatchPath(req.path), find_best_match(route_rules, MatchPath(req.path)))
    /\ trace' = Append(trace, "proxy_handler")
    /\ UNCHANGED <<route_rules, settings, limits, outbound, served, global_passed, clients,
                   call,
                   hasher, metrics, direct>>

\* axum::body::to_bytes(req.into_body(), usize::MAX).await
read_body ==
    /\ pc = "read_body"
    /\ \/ pc' = "send" /\ resp' = resp
       \/ pc' = "done" /\ resp' = Response(500, "Body read error: ", <<>>, "proxy_handler")
    /\ UNCHANGED <<route_rules, settings, limits, pattern_cache, balancers, req,
                   trace, outbound, served, global_passed, clients, call,
                   hasher, metrics, direct>>

\* upstream statuses are passed through unchanged, a 401 of the upstream's own included
UpstreamStatuses == {200, 401}

\* the upstreams that answer 302 with a Location, and the URL they name
RedirectingUpstreams == {<<"http://r:1">>}

RedirectLocation == <<"http://r:1", "/", "n", "e", "x", "t">>

\* the URL of the HTTP request the client issues after hops redirects
UrlAt(target, hops) == IF hops = 0 THEN target ELSE RedirectLocation

\* HTTP_CLIENT is built without .redirect(..): the default policy follows
\* a redirect while fewer than the limit have been followed
FollowsRedirect(hops) == hops < RedirectLimit

\* rb.body(body_bytes).send().await and resp.bytes().await: one HTTP request of
\* the client; a redirect is followed inside send(), or is its error
send ==
    /\ pc = "send"
    /\ outbound' = Append(outbound, UrlAt(req.target, req.hops))
    /\ \/ /\ \E status \in UpstreamStatuses : resp' = Response(status, "", <<>>, "upstream")
          /\ pc' = "done"
          /\ req' = req
       \/ /\ resp' = Response(500, "Proxy error: ", <<>>, "proxy_handler")
          /\ pc' = "done"
          /\ req' = req
       \/ /\ resp' = Response(500, "Response body error: ", <<>>, "proxy_handler")
          /\ pc' = "done"
          /\ req' = req
       \/ /\ <<UrlAt(req.target, req.hops)[1]>> \in RedirectingUpstreams
          /\ IF FollowsRedirect(req.hops)
             THEN /\ req' = [req EXCEPT !.hops = @ + 1]
                  /\ pc' = "send"
                  /\ resp' = resp
             ELSE /\ req' = req
                  /\ pc' = "done"
                  /\ resp' = Response(500, "Proxy error: ", <<>>, "proxy_handler")
    /\ UNCHANGED <<route_rules, settings, limits, pattern_cache, balancers,
                   trace, served, global_passed, clients, call,
                   hasher, metrics, direct>>

\* get(|| async { "Rust Gateway is running" })
index ==
    /\ pc = "index"
    /\ resp' = Response(200, "Rust Gateway is running", <<>>, "index")
    /\ pc' = "done"
    /\ trace' = Append(trace, "index")
    /\ UNCHANGED <<route_rules, settings, limits, pattern_cache, balancers, req,
                   outbound, served, global_passed, clients, call, hasher, metrics,
                   direct>>

\* metrics_handler: the text exposition of what prometheus::gather() returns
metrics_handler ==
    /\ pc = "metrics_handler"
    /\ resp' = Response(200, "text exposition", <<>>, "metrics_handler")
    /\ pc' = "done"
    /\ trace' = Append(trace, "metrics_handler")
    /\ UNCHANGED <<route_rules, settings, limits, pattern_cache, balancers, req,
                   outbound, served, global_passed, clients, call, hasher, metrics,
                   direct>>

\* a method other than GET on a get(..) route
method_not_allowed ==
    /\ pc = "method_not_allowed"
    /\ resp' = Response(405, "", <<>>, "router")
    /\ pc' = "done"
    /\ trace' = Append(trace, "method_not_allowed")
    /\ UNCHANGED <<route_rules, settings, limits, pattern_cache, balancers, req,
                   outbound, served, global_passed, clients, call, hasher, metrics,
                   direct>>

\* with_label_values(..).inc() and with_label_values(..).observe(..):
\* one more update under the label
Inc(vec, label) ==
    [l \in DOMAIN vec \cup {label} |->
        IF l # label THEN vec[l]
        ELSE IF label \in DOMAIN vec THEN vec[label] + 1 ELSE 1]

NoMetrics == [counter |-> <<>>, duration |-> <<>>]

\* a middleware that counts every path
prometheus_middleware_all(m, method, path, status) ==
    [counter  |-> Inc(m.counter, <<method, path, status>>),
     duration |-> Inc(m.duration, <<method, path>>)]

\* prometheus_middleware after next.run(req).await: the metrics afterwards
prometheus_middleware(m, method, path, status) ==
    IF path # S_metrics
    THEN [counter  |-> Inc(m.counter, <<method, path, status>>),
          duration |-> Inc(m.duration, <<method, path>>)]
    ELSE m

\* prometheus_middleware returns the response: it is written and the
\* request's state is dropped
Respond ==
    /\ pc = "done"
    /\ metrics' = prometheus_middleware(metrics, req.method, req.path, resp.status)
    /\ pc' = "idle"
    /\ req' = NoReq
    /\ trace' = <<>>
    /\ resp' = NoResp
    /\ outbound' = <<>>
    /\ UNCHANGED <<route_rules, settings, limits, pattern_cache, balancers, served,
                   global_passed, clients, call, hasher, direct>>

\* 1/global_qps second passes: the global bucket regains a cell
TickGlobal ==
    /\ limits.global < limits.global_cap
    /\ limits' = [limits EXCEPT !.global = @ + 1]
    /\ global_passed' = 0
    /\ UNCHANGED <<route_rules, settings, pattern_cache, balancers, req, pc, trace,
                   resp, outbound, served, clients, call,
                   hasher, metrics, direct>>

\* 1/client_qps second passes for a key: its bucket regains a cell
TickClient ==
    /\ \E i \in 1..Len(limits.per_ip) :
          /\ limits.per_ip[i].cells < limits.client_cap
          /\ limits' = WithBucket(limits, limits.per_ip[i].key, limits.per_ip[i].cells + 1)
    /\ UNCHANGED <<route_rules, settings, pattern_cache, balancers, req, pc, trace,
                   resp, outbound, served, global_passed, clients, call,
                   hasher, metrics, direct>>

(***************************************************************************)
(* The gateway: main.rs installs the settings, the limiter and the table.  *)
(***************************************************************************)
\* the keys the model hashes: the ring keys of the upstreams and the client addresses
HashKeys(upstreams, ips) ==
    {RingKey(u, i) : u \in upstreams, i \in 0..(VirtualNodes - 1)} \cup {<<ip>> : ip \in ips}

\* no balancer is used directly
NoDirect == [bal |-> <<>>, tasks |-> <<>>]

InitWith(tables, qps) ==
    /\ hasher = [k \in {} |-> 0]
    /\ metrics = NoMetrics
    /\ direct = NoDirect
    /\ route_rules \in tables
    /\ settings \in {Settings("k1", q[1], q[2]) : q \in qps}
    /\ limits = init_rate_limits(settings)
    /\ pattern_cache = {}
    /\ balancers = {}
    /\ req = NoReq
    /\ pc = "idle"
    /\ trace = <<>>
    /\ resp = NoResp
    /\ outbound = <<>>
    /\ served = 0
    /\ global_passed = 0
    /\ clients = {}
    /\ call = NoCall

Stages ==
    \/ rate_limit_layer
    \/ check_whitelist_middleware
    \/ JwtAuth
    \/ propagate_auth_headers
    \/ proxy_handler
    \/ read_body
    \/ send
    \/ Respond

Init == InitWith(Tables, {<<2, 1>>})

Next ==
    \/ Accept(Paths, AuthHeaders, {"10.0.0.1"}, MaxRequests)
    \/ Stages
    \/ TickGlobal
    \/ TickClient

Spec == Init /\ [][Next]_vars

(***************************************************************************)
(* The limiter under every configured quota, with one kind of request.     *)
(***************************************************************************)
InitRate == InitWith({FullTable}, (0..MaxQps) \X (0..MaxQps))

RatePaths == {S_user_profile}

RateAuths == {Header(<<Bearer, "jwt_valid">>)}

NextRate ==
    \/ Accept(RatePaths, RateAuths, Peers, MaxRateRequests)
    \/ Stages
    \/ TickGlobal
    \/ TickClient

SpecRate == InitRate /\ [][NextRate]_vars

(***************************************************************************)
(* Direct calls of the pure functions, on inputs drawn from bounded sets.  *)
(***************************************************************************)
Alphabet == {"/", "a", "b"}

RECURSIVE StringsUpTo(_)
StringsUpTo(n) ==
    IF n = 0 THEN {<<>>}
    ELSE LET shorter == StringsUpTo(n - 1)
         IN shorter \cup {Append(x, c) : x \in shorter, c \in Alphabet}

S_user_x == <<"/", "u", "s", "e", "r", "/", "x">>

S_user_slash == <<"/", "u", "s", "e", "r", "/">>

S_user_star == <<"/", "u", "s", "e", "r", "/", "*">>

S_user_all == <<"/", "u", "s", "e", "r", "/", "*", "*">>

S_user_var == <<"/", "u", "s", "e", "r", "/", "{", "i", "d", "}">>

S_user_q == <<"/", "u", "s", "e", "r", "/", "?">>

S_u_q_er == <<"/", "u", "?", "e", "r">>

S_a == <<"/", "a">>

S_a_b == <<"/", "a", "/", "b">>

LiteralPool == (StringsUpTo(MaxLen) \ {<<>>}) \cup {S_user, S_users, S_user_slash}

CallPaths ==
    StringsUpTo(MaxLen) \cup {S_user, S_users, S_user_profile, S_user_x, S_user_slash}

\* the pattern lists of the rules handed to find_best_match; each passes validate
PrefixPool ==
    {<<S_user>>, <<S_users>>, <<S_user, S_users>>, <<S_user_profile>>, <<S_user_star>>,
     <<S_user_all>>, <<S_user_var>>, <<S_user_q>>, <<S_u_q_er>>, <<S_a, S_user_x>>}

RulePool == {Rule(p, <<<<"http://u:1">>>>, "robin", NoWhitelist) : p \in PrefixPool}

RECURSIVE ListsUpTo(_, _)
ListsUpTo(pool, n) ==
    IF n = 0 THEN {<<>>}
    ELSE LET shorter == ListsUpTo(pool, n - 1)
         IN shorter \cup {Append(x, r) : x \in shorter, r \in pool}

BestMatchPaths == {S_user, S_users, S_user_profile, S_user_x, S_user_slash, S_a_b, S_nope}

CallHeaders ==
    AuthHeaders \cup
    {Header(<<>>),
     Header(<<Bearer>>),
     Header(<<"bearer ", "jwt_valid">>),
     Header(<<"Basic ", "jwt_valid">>),
     Header(<<Bearer, "jwt_hs512">>),
     Header(<<Bearer, "jwt_garbage">>),
     Header(<<Bearer, "jwt_valid", Space>>),
     Header(<<Bearer, "jwt_valid", "jwt_valid">>),
     Header(<<Bearer, Space, Bearer, "jwt_valid">>),
     OpaqueHeader(<<Bearer, "jwt_valid">>),
     OpaqueHeader(<<"x">>)}

NoSettings ==
    [present |-> FALSE, jwt_decoding_key |-> "", global_qps |-> 0, client_qps |-> 0]

CallSettings == {NoSettings, Settings("k1", 1, 1), Settings("k2", 1, 1)}

\* the extractor's value with the response its rejection turns into
Extracted(r) ==
    [ok |-> r.ok, claims |-> r.claims, stored |-> r.stored,
     rejection |-> IF r.ok THEN [status |-> 0, body |-> ""] ELSE into_response(r.err)]

CallFromRequestParts ==
    /\ call.fn = ""
    /\ \E w \in BOOLEAN, st \in CallSettings, h \in CallHeaders :
          LET parts == [whitelist |-> w, settings |-> st, auth |-> h]
          IN call' = [fn |-> "from_request_parts", args |-> parts,
                      result |-> Extracted(from_request_parts(parts))]
    /\ UNCHANGED <<route_rules, settings, limits, pattern_cache, balancers, req, pc,
                   trace, resp, outbound, served, global_passed, clients,
                   hasher, metrics, direct>>

CallFindBestMatch ==
    /\ call.fn = ""
    /\ \E rules \in ListsUpTo(RulePool, MaxRules), path \in BestMatchPaths :
          call' = [fn |-> "find_best_match", args |-> <<rules, path>>,
                   result |-> find_best_match(rules, path)]
    /\ UNCHANGED <<route_rules, settings, limits, pattern_cache, balancers, req, pc,
                   trace, resp, outbound, served, global_passed, clients,
                   hasher, metrics, direct>>

CallMatchesPrefix ==
    /\ call.fn = ""
    /\ \E prefix \in LiteralPool, path \in CallPaths :
          call' = [fn |-> "matches_prefix", args |-> <<prefix, path>>,
                   result |-> matches_prefix(prefix, path)]
    /\ UNCHANGED <<route_rules, settings, limits, pattern_cache, balancers, req, pc,
                   trace, resp, outbound, served, global_passed, clients,
                   hasher, metrics, direct>>

\* the caller takes the result; the next call starts from there
Return ==
    /\ call.fn # ""
    /\ call' = NoCall
    /\ UNCHANGED <<route_rules, settings, limits, pattern_cache, balancers, req, pc,
                   trace, resp, outbound, served, global_passed, clients,
                   hasher, metrics, direct>>

InitCalls == InitWith({<<>>}, {<<1, 1>>})

NextCalls ==
    \/ CallFromRequestParts
    \/ CallFindBestMatch
    \/ CallMatchesPrefix
    \/ Return

SpecCalls == InitCalls /\ [][NextCalls]_vars

(***************************************************************************)
(* The gateway as main.rs builds it: the routes `/`, `/metrics` and the    *)
(* proxy, requests with a method and a query string, two peers, a table    *)
(* with an ip-hash rule.                                                   *)
(***************************************************************************)
MaxAppRequests == 2



S_users_x == <<"/", "u", "s", "e", "r", "s", "/", "x">>

S_hash == <<"/", "h", "a", "s", "h">>

S_hash_x == <<"/", "h", "a", "s", "h", "/", "x">>

S_k_1 == <<"k", "=", "1">>

S_moved == <<"/", "m", "o", "v", "e", "d">>

S_moved_x == <<"/", "m", "o", "v", "e", "d", "/", "x">>

HashUpstreams == <<<<"http://h:1">>, <<"http://h:2">>>>

\* every rule passes validate
AppTable ==
    << Rule(<<S_user, S_users>>, <<<<"http://u:1">>>>, "robin", NoWhitelist),
       Rule(<<S_api_user_id>>, <<<<"http://a:1">>, <<"http://b:2">>>>, "robin", NoWhitelist),
       Rule(<<S_hash>>, HashUpstreams, "iphash", NoWhitelist),
       Rule(<<S_public>>, <<<<"http://p:1">>>>, "robin", SomeWhitelist(<<S_public_all>>)),
       Rule(<<S_moved>>, <<<<"http://r:1">>>>, "robin", NoWhitelist) >>

ValidBearer == Header(<<Bearer, "jwt_valid">>)

AppRequests ==
    { Req("GET", S_root, NoQuery, NoHeader, "10.0.0.1"),
      Req("GET", S_metrics, NoQuery, NoHeader, "10.0.0.1"),
      Req("POST", S_metrics, NoQuery, NoHeader, "10.0.0.1"),
      Req("GET", S_user_x, Query(S_k_1), ValidBearer, "10.0.0.1"),
      Req("GET", S_user_x, NoQuery, NoHeader, "10.0.0.1"),
      Req("GET", S_users_x, Query(S_k_1), ValidBearer, "10.0.0.1"),
      Req("GET", S_users_x, NoQuery, ValidBearer, "10.0.0.1"),
      Req("GET", S_api_user_42, NoQuery, ValidBearer, "10.0.0.1"),
      Req("GET", S_hash_x, NoQuery, ValidBearer, "10.0.0.1"),
      Req("GET", S_hash_x, NoQuery, ValidBearer, "10.0.0.2"),
      Req("POST", S_nope, NoQuery, ValidBearer, "10.0.0.2"),
      WithHeaders(Req("GET", S_user_x, NoQuery, ValidBearer, "10.0.0.1"), "admin", "root"),
      WithHeaders(Req("GET", S_user_x, NoQuery, Header(<<Bearer, "jwt_anon">>), "10.0.0.1"),
                  "admin", "root"),
      WithHeaders(Req("GET", S_user_x, NoQuery, Header(<<Bearer, "jwt_ctl">>), "10.0.0.1"),
                  "admin", "root"),
      WithHeaders(Req("GET", S_public_img, NoQuery, ValidBearer, "10.0.0.1"), "admin", ""),
      Req("GET", S_public_img, NoQuery, NoHeader, "10.0.0.1"),
      Req("GET", S_moved_x, NoQuery, ValidBearer, "10.0.0.1") }

\* the hash function with the keys in the given order: a key's hash is its position
HasherOf(order) == [k \in {order[i] : i \in DOMAIN order} |->
                       CHOOSE i \in DOMAIN order : order[i] = k]

\* the ring keys of an upstream, in the order of their construction
RingKeys(upstream) == [i \in 1..VirtualNodes |-> RingKey(upstream, i - 1)]

\* two of the orders the hashes of the ring keys and of the addresses can have:
\* in the first the ring separates 10.0.0.1 from 127.0.0.1, in the second not
AppHashers ==
    { HasherOf(<< <<"10.0.0.1">> >> \o RingKeys(HashUpstreams[1])
               \o << <<"10.0.0.2">>, <<Loopback>> >> \o RingKeys(HashUpstreams[2])),
      HasherOf(<< <<"10.0.0.1">>, <<"10.0.0.2">>, <<Loopback>> >>
               \o RingKeys(HashUpstreams[1]) \o RingKeys(HashUpstreams[2])) }

InitApp ==
    /\ hasher \in AppHashers
    /\ metrics = NoMetrics
    /\ direct = NoDirect
    /\ route_rules = AppTable
    /\ settings = Settings("k1", 1, 1)
    /\ limits = init_rate_limits(settings)
    /\ pattern_cache = {}
    /\ balancers = {}
    /\ req = NoReq
    /\ pc = "idle"
    /\ trace = <<>>
    /\ resp = NoResp
    /\ outbound = <<>>
    /\ served = 0
    /\ global_passed = 0
    /\ clients = {}
    /\ call = NoCall

NextApp ==
    \/ AcceptWith(AppRequests, MaxAppRequests)
    \/ Stages
    \/ index
    \/ metrics_handler
    \/ method_not_allowed
    \/ TickGlobal
    \/ TickClient

SpecApp == InitApp /\ [][NextApp]_vars

(***************************************************************************)
(* A balancer used directly, as the unit tests of load_balancer do: tasks  *)
(* call select and update_upstreams / update on one balancer, each call a  *)
(* sequence of steps between which the other tasks run.                    *)
(***************************************************************************)
NumTasks == 2

\* calls of a round-robin balancer: enough for its counter to wrap around
MaxCalls == 5

\* calls of a weighted-random or ip-hash balancer
MaxOtherCalls == 3

HashSpace == 2

Ua == <<"http://a:1">>

Ub == <<"http://b:2">>

Uc == <<"http://c:3">>

RoundRobinLists == {<<>>, <<Ua, Ub>>, <<Ua, Ub, Uc>>}

IpHashLists == {<<>>, <<Ua>>, <<Ua, Ub>>}

WeightedLists ==
    {<<>>,
     <<WeightedUpstream(Ua, 0)>>,
     <<WeightedUpstream(Ua, 0), WeightedUpstream(Ub, 1)>>,
     <<WeightedUpstream(Ua, 1), WeightedUpstream(Ub, 2), WeightedUpstream(Uc, 3)>>}

\* the arguments of select
ClientAddrs == {NoAddr, SomeAddr("10.0.0.1")}

\* every hash function on the keys of the model
Hashers == [HashKeys({Ua, Ub}, {"10.0.0.1", Loopback}) -> 0..(HashSpace - 1)]

TaskIds == 1..NumTasks

\* a task: the call it is in, its position, the argument, the snapshot it loaded
\* or built, the result; k, draw, seen and after_update are history:
\* the selects finished before this one, the random draw, the lists given to
\* the balancer (at construction or by the update that stored last) between
\* the call and the load, whether an update had returned before the call
NoTask ==
    [op |-> "", pc |-> "idle", arg |-> <<>>, snapshot |-> <<>>, result |-> <<>>,
     k |-> 0, draw |-> 0, seen |-> {}, after_update |-> FALSE]

\* the upstream list of a published state
ListOf(kind, state) == IF kind = "RoundRobin" THEN state ELSE state.upstreams

\* the argument lists of the updates of a balancer
ListsFor(kind) ==
    CASE kind = "RoundRobin"     -> RoundRobinLists
      [] kind = "WeightedRandom" -> WeightedLists
      [] OTHER                   -> IpHashLists

CallsOf(kind) == IF kind = "RoundRobin" THEN MaxCalls ELSE MaxOtherCalls

DirectWith(bal) ==
    [bal       |-> bal,
     tasks     |-> [t \in TaskIds |-> NoTask],
     calls     |-> 0,
     published |-> {bal.state},
     newest    |-> ListOf(bal.kind, bal.state),
     selects   |-> 0,
     stores    |-> 0,
     returned  |-> 0]

\* select is called
select_call(t) ==
    /\ direct.tasks[t].pc = "idle"
    /\ direct.calls < CallsOf(direct.bal.kind)
    /\ \E client_ip \in ClientAddrs :
          direct' = [direct EXCEPT
             !.calls = @ + 1,
             !.tasks[t] = [NoTask EXCEPT
                 !.op = "select", !.pc = "called", !.arg = client_ip,
                 !.seen = {direct.newest},
                 !.after_update = direct.returned > 0]]

\* self.upstreams.load() / self.state.load() / self.inner.load()
select_load(t) ==
    /\ direct.tasks[t].op = "select"
    /\ direct.tasks[t].pc = "called"
    /\ direct' = [direct EXCEPT !.tasks[t].snapshot = direct.bal.state,
                                !.tasks[t].pc = "loaded"]

\* the state a select works on after its load: the snapshot it holds
Reloaded(task, bal) == bal.state

Loaded(task, bal) == task.snapshot

\* the rest of select on the loaded snapshot: the counter afterwards, the draw
\* and the result
SelectResults(kind, snapshot, current, client_ip) ==
    CASE kind = "RoundRobin" ->
           {[current |-> IF Len(snapshot) = 0 THEN current ELSE fetch_add(current),
             draw    |-> 0,
             result  |-> RoundRobinSelect(snapshot, current)]}
      [] kind = "WeightedRandom" ->
           {[current |-> current, draw |-> o.draw, result |-> o.result] :
               o \in Inner_select_outcomes(snapshot)}
      [] OTHER ->
           {[current |-> current, draw |-> 0, result |-> IpHashSelect(snapshot, client_ip)]}

select_finish(t) ==
    /\ direct.tasks[t].op = "select"
    /\ direct.tasks[t].pc = "loaded"
    /\ \E o \in SelectResults(direct.bal.kind, Loaded(direct.tasks[t], direct.bal),
                              direct.bal.current, direct.tasks[t].arg) :
          direct' = [direct EXCEPT
             !.bal.current = o.current,
             !.selects = @ + 1,
             !.tasks[t].k = direct.selects,
             !.tasks[t].draw = o.draw,
             !.tasks[t].result = o.result,
             !.tasks[t].pc = "returned"]

\* update_upstreams / update is called
update_call(t) ==
    /\ direct.tasks[t].pc = "idle"
    /\ direct.calls < CallsOf(direct.bal.kind)
    /\ \E list \in ListsFor(direct.bal.kind) :
          direct' = [direct EXCEPT
             !.calls = @ + 1,
             !.tasks[t] = [NoTask EXCEPT !.op = "update", !.pc = "called", !.arg = list]]

\* an update that builds nothing new
BuiltStale(bal, list) == bal.state

\* the new state an update builds before it stores anything:
\* Arc::new(new_upstreams), BalancerState::build with the virtual_nodes of the
\* loaded state, WeightedRandomBalancerInner::new
Built(bal, list) ==
    CASE bal.kind = "RoundRobin"     -> list
      [] bal.kind = "WeightedRandom" -> Inner_new(list)
      [] OTHER                       -> BalancerState_build(list, bal.state.virtual_nodes)

update_build(t) ==
    /\ direct.tasks[t].op = "update"
    /\ direct.tasks[t].pc = "called"
    /\ direct' = [direct EXCEPT
          !.tasks[t].snapshot = Built(direct.bal, direct.tasks[t].arg),
          !.tasks[t].pc = "built"]

\* history: a select that has not loaded yet will see the list published now
SeenAfterStore(task, list) ==
    IF task.op = "select" /\ task.pc = "called"
    THEN [task EXCEPT !.seen = @ \cup {list}]
    ELSE task

\* self.upstreams.store(..) / self.state.store(..) / self.inner.store(..)
update_store(t) ==
    /\ direct.tasks[t].op = "update"
    /\ direct.tasks[t].pc = "built"
    /\ direct' = [direct EXCEPT
          !.bal.state = direct.tasks[t].snapshot,
          !.published = @ \cup {direct.tasks[t].snapshot},
          !.newest = direct.tasks[t].arg,
          !.stores = @ + 1,
          !.tasks = [u \in TaskIds |->
                        IF u = t THEN [direct.tasks[t] EXCEPT !.pc = "returned"]
                        ELSE SeenAfterStore(direct.tasks[u], direct.tasks[t].arg)]]

\* the caller takes the result of its call
task_return(t) ==
    /\ direct.tasks[t].pc = "returned"
    /\ direct' = [direct EXCEPT
          !.returned = IF direct.tasks[t].op = "update" THEN @ + 1 ELSE @,
          !.tasks[t] = NoTask]

InitDirect ==
    /\ \E kind \in {"RoundRobin", "WeightedRandom", "IpHash"} :
          \/ /\ kind = "RoundRobin"
             /\ hasher = <<>>
             /\ \E list \in RoundRobinLists : direct = DirectWith(RoundRobinBalancer_new(list))
          \/ /\ kind = "WeightedRandom"
             /\ hasher = <<>>
             /\ \E list \in WeightedLists :
                   direct = DirectWith(WeightedRandomBalancer_new(list))
          \/ /\ kind = "IpHash"
             /\ hasher \in Hashers
             /\ \E list \in IpHashLists : direct = DirectWith(IpHashBalancer_new(list))
    /\ metrics = NoMetrics
    /\ route_rules = <<>>
    /\ settings = Settings("k1", 1, 1)
    /\ limits = init_rate_limits(settings)
    /\ pattern_cache = {}
    /\ balancers = {}
    /\ req = NoReq
    /\ pc = "idle"
    /\ trace = <<>>
    /\ resp = NoResp
    /\ outbound = <<>>
    /\ served = 0
    /\ global_passed = 0
    /\ clients = {}
    /\ call = NoCall

DirectStep(t) ==
    \/ select_call(t)
    \/ select_load(t)
    \/ select_finish(t)
    \/ update_call(t)
    \/ update_build(t)
    \/ update_store(t)
    \/ task_return(t)

NextDirect ==
    /\ \E t \in TaskIds : DirectStep(t)
    /\ UNCHANGED <<route_rules, settings, limits, pattern_cache, balancers, req, pc,
                   trace, resp, outbound, served, global_passed, clients, call, hasher,
                   metrics>>

SpecDirect == InitDirect /\ [][NextDirect]_vars

(***************************************************************************)
(* The registry under concurrent handlers: tasks call                      *)
(* get_or_create_balancer and select on what it returns, as proxy_handler  *)
(* does on the worker threads.  An instance is named by the order of its   *)
(* construction.                                                           *)
(***************************************************************************)
MaxRegistryCalls == 3

\* one upstream whose URL holds a comma
Uab == <<"http://a:1", ",", "http://b:2">>

\* the (upstreams, strategy) pairs of the rules the handlers route by
RegistryArgs ==
    {[upstreams |-> <<Ua, Ub>>, strategy |-> "robin"],
     [upstreams |-> <<Uab>>, strategy |-> "robin"],
     [upstreams |-> <<Ua>>, strategy |-> "random"]}

\* a handler: the rule it routes by, what entry() found, the instance it got,
\* the upstream; raced is history: no instance was there when it was called
NoCaller ==
    [pc |-> "idle", arg |-> <<>>, vacant |-> FALSE, got |-> 0, result |-> None,
     raced |-> FALSE]

KeyOf(arg) == BalancerKey(arg.upstreams, arg.strategy)

\* constructed: the keys of the instances constructed, in order (history);
\* retained: which instance the map holds for a key; selected: the selects made
\* on the retained instance of a key (history); lock: the task inside the entry
RegistryWith ==
    [bal         |-> <<>>,
     tasks       |-> [t \in TaskIds |-> NoCaller],
     calls       |-> 0,
     lock        |-> 0,
     constructed |-> <<>>,
     retained    |-> {},
     selected    |-> <<>>]

RetainedId(retained, key) ==
    IF \E r \in retained : r.key = key
    THEN (CHOOSE r \in retained : r.key = key).id
    ELSE 0

\* proxy_handler reaches get_or_create_balancer(&best_match.upstream, &best_match.strategy)
get_or_create_call(t) ==
    /\ direct.tasks[t].pc = "idle"
    /\ direct.calls < MaxRegistryCalls
    /\ \E arg \in RegistryArgs :
          direct' = [direct EXCEPT
             !.calls = @ + 1,
             !.tasks[t] = [NoCaller EXCEPT
                 !.pc = "entry", !.arg = arg,
                 !.raced = ~HasBalancer(balancers, KeyOf(arg))]]
    /\ UNCHANGED balancers

\* a map whose entry() takes no lock
ShardNeverLocked(lock) == TRUE

\* DashMap::entry waits for the write lock of the key's shard
ShardFree(lock) == lock = 0

\* BALANCERS.entry(key.clone()): the lock is taken, the entry is Vacant or Occupied
entry(t) ==
    /\ direct.tasks[t].pc = "entry"
    /\ ShardFree(direct.lock)
    /\ direct' = [direct EXCEPT
          !.lock = t,
          !.tasks[t].vacant = ~HasBalancer(balancers, KeyOf(direct.tasks[t].arg)),
          !.tasks[t].pc = "or_insert_with"]
    /\ UNCHANGED balancers

\* .or_insert_with(|| ..).clone(): a Vacant entry gets a new balancer, the Arc
\* in the entry is cloned and the lock is released
or_insert_with(t) ==
    /\ direct.tasks[t].pc = "or_insert_with"
    /\ LET arg == direct.tasks[t].arg
           key == KeyOf(arg)
           id  == Len(direct.constructed) + 1
       IN IF direct.tasks[t].vacant
          THEN /\ balancers' = {e \in balancers : e.key # key}
                                  \cup {[key |-> key,
                                         bal |-> NewBalancer(arg.upstreams, arg.strategy)]}
               /\ direct' = [direct EXCEPT
                     !.lock = 0,
                     !.constructed = Append(@, key),
                     !.retained = {r \in @ : r.key # key} \cup {[key |-> key, id |-> id]},
                     !.tasks[t].got = id,
                     !.tasks[t].pc = "select"]
          ELSE /\ balancers' = balancers
               /\ direct' = [direct EXCEPT
                     !.lock = 0,
                     !.tasks[t].got = RetainedId(direct.retained, key),
                     !.tasks[t].pc = "select"]

\* .select(None) on the instance the handler holds; an instance the map no
\* longer holds is the handler's own
select_registered(t) ==
    /\ direct.tasks[t].pc = "select"
    /\ LET arg == direct.tasks[t].arg
           key == KeyOf(arg)
       IN IF direct.tasks[t].got = RetainedId(direct.retained, key)
          THEN \E o \in SelectOutcomes(BalancerOf(balancers, key).bal, NoAddr) :
                  /\ balancers' = {e \in balancers : e.key # key}
                                     \cup {[key |-> key, bal |-> o.after]}
                  /\ direct' = [direct EXCEPT
                        !.selected = Append(@, key),
                        !.tasks[t].result = o.upstream,
                        !.tasks[t].pc = "returned"]
          ELSE \E o \in SelectOutcomes(NewBalancer(arg.upstreams, arg.strategy), NoAddr) :
                  /\ balancers' = balancers
                  /\ direct' = [direct EXCEPT
                        !.tasks[t].result = o.upstream,
                        !.tasks[t].pc = "returned"]

\* the handler goes on with the upstream
handler_return(t) ==
    /\ direct.tasks[t].pc = "returned"
    /\ direct' = [direct EXCEPT !.tasks[t] = NoCaller]
    /\ UNCHANGED balancers

InitRegistry ==
    /\ direct = RegistryWith
    /\ hasher = <<>>
    /\ metrics = NoMetrics
    /\ route_rules = <<>>
    /\ settings = Settings("k1", 1, 1)
    /\ limits = init_rate_limits(settings)
    /\ pattern_cache = {}
    /\ balancers = {}
    /\ req = NoReq
    /\ pc = "idle"
    /\ trace = <<>>
    /\ resp = NoResp
    /\ outbound = <<>>
    /\ served = 0
    /\ global_passed = 0
    /\ clients = {}
    /\ call = NoCall

RegistryStep(t) ==
    \/ get_or_create_call(t)
    \/ entry(t)
    \/ or_insert_with(t)
    \/ select_registered(t)
    \/ handler_return(t)

NextRegistry ==
    /\ \E t \in TaskIds : RegistryStep(t)
    /\ UNCHANGED <<route_rules, settings, limits, pattern_cache, req, pc, trace, resp,
                   outbound, served, global_passed, clients, call, hasher, metrics>>

SpecRegistry == InitRegistry /\ [][NextRegistry]_vars

(***************************************************************************)
(* Vocabulary of the properties.                                           *)
(***************************************************************************)
IsPrefix(s, t) == Len(s) <= Len(t) /\ SubSeq(t, 1, Len(s)) = s

Reached(stage) == \E i \in 1..Len(trace) : trace[i] = stage

PipelineOrder ==
    <<"rate_limit_layer", "check_whitelist_middleware", "JwtAuth",
      "propagate_auth_headers", "proxy_handler">>

\* the rules of the table that match a path
MatchingRules(rules, path) == {i \in 1..Len(rules) : RouteRule_matches(rules[i], path)}

\* len(pattern), plus 1000 when the pattern has one of the three characters
ScoreOfPattern(p) ==
    Len(p) + (IF \E i \in 1..Len(p) : p[i] \in {"{", "*", "?"} THEN 1000 ELSE 0)

\* the maximum over the patterns of a rule
ScoreOfRule(rule) ==
    LET scores == {ScoreOfPattern(rule.prefix[i]) : i \in 1..Len(rule.prefix)}
    IN CHOOSE m \in scores : \A x \in scores : x <= m

\* does rule i beat every other matching rule: a higher score, or the same score
\* and an earlier place in the table
IsBestRule(rules, path, i) ==
    /\ i \in MatchingRules(rules, path)
    /\ \A j \in MatchingRules(rules, path) :
          \/ ScoreOfRule(rules[j]) < ScoreOfRule(rules[i])
          \/ ScoreOfRule(rules[j]) = ScoreOfRule(rules[i]) /\ i <= j

\* the path with a leading /proxy removed
Stripped(path) ==
    IF Len(path) >= 6 /\ SubSeq(path, 1, 6) = <<"/", "p", "r", "o", "x", "y">>
    THEN SubSeq(path, 7, Len(path))
    ELSE path

\* the best-matching rule of the path exists, defines a whitelist, and one of its
\* whitelist patterns matches the path
BestRuleWhitelists(rules, path) ==
    \E i \in 1..Len(rules) :
        /\ IsBestRule(rules, Stripped(path), i)
        /\ rules[i].whitelist.some
        /\ \E k \in 1..Len(rules[i].whitelist.list) :
              WhitelistEntryHit(rules[i].whitelist.list[k], Stripped(path))

\* a JWT that verifies under HS256 with the configured secret and is not expired
VerifiedJwt(t, key) ==
    /\ t \in TokenNames
    /\ Tokens[t].wellformed
    /\ Tokens[t].alg = "HS256"
    /\ Tokens[t].key = key
    /\ Tokens[t].exp >= Now

\* the header is `Bearer ` followed by a JWT that verifies
BearerThenVerifiedJwt(h, key) ==
    /\ h.present /\ h.ascii
    /\ Len(h.value) = 2
    /\ h.value[1] = Bearer
    /\ VerifiedJwt(h.value[2], key)

\* the header starts with `Bearer ` and what is left of it without every leading
\* `Bearer ` and without the white space around is a JWT that verifies
BearerAroundVerifiedJwt(h, key) ==
    /\ h.present /\ h.ascii
    /\ Len(h.value) > 0
    /\ h.value[1] = Bearer
    /\ \E t \in TokenNames :
          /\ VerifiedJwt(t, key)
          /\ \E i \in 1..Len(h.value) :
                /\ h.value[i] = t
                /\ \A j \in 1..(i - 1) : h.value[j] \in {Bearer, Space}
                /\ \A j \in (i + 1)..Len(h.value) : h.value[j] = Space
                /\ \A j \in 1..(i - 1) :
                      h.value[j] = Space => \A k \in (j + 1)..(i - 1) : h.value[k] = Space

(***************************************************************************)
(* C1.  The stages of a request run in the order rate limit, whitelist      *)
(* tagging, token verification, header propagation, proxy handler, each     *)
(* only after every earlier one let the request through: a request the      *)
(* limiter rejects (429) has run the limiter alone, a request the verifier  *)
(* rejects (401 or 500) has run the first three stages alone, and neither   *)
(* has caused an outbound call.                                             *)
(***************************************************************************)
C1_StagesInOrder ==
    /\ IsPrefix(trace, PipelineOrder)
    /\ pc \in {"read_body", "send"} \/ Len(outbound) > 0 => trace = PipelineOrder
    /\ resp.by = "rate_limit_layer" =>
          /\ resp.status = 429
          /\ pc = "done"
          /\ trace = SubSeq(PipelineOrder, 1, 1)
          /\ outbound = <<>>
    /\ resp.by = "JwtAuth" =>
          /\ resp.status \in {401, 500}
          /\ pc = "done"
          /\ trace = SubSeq(PipelineOrder, 1, 3)
          /\ outbound = <<>>

C1_Witness ==
    /\ pc = "done"
    /\ resp.by = "JwtAuth"
    /\ resp.status = 401
    /\ trace = <<"rate_limit_layer", "check_whitelist_middleware", "JwtAuth">>

ExpiredBearer(r) ==
    /\ r.auth.present /\ r.auth.ascii
    /\ Len(r.auth.value) = 2
    /\ r.auth.value[1] = Bearer
    /\ r.auth.value[2] \in TokenNames
    /\ Tokens[r.auth.value[2]].exp < Now

NoRuleMatches(rules, path) == MatchingRules(rules, Stripped(path)) = {}

C5_NoRule502 ==
    pc = "done" /\ NoRuleMatches(route_rules, req.path) =>
        /\ resp.status = 502
        /\ resp.body = "No upstream configured for path: "
        /\ resp.path = Stripped(req.path)
        /\ outbound = <<>>

(***************************************************************************)
(* C5, amended.  If no rule matches the request path (after /proxy          *)
(* stripping), a request that the rate limiter and the token verifier let   *)
(* through is answered 502 with the body "No upstream configured for path:  *)
(* <path>" by the proxy handler at once, without reading the body and       *)
(* without any outbound call; a request one of the two rejects is answered  *)
(* 429 or 401 instead, and no such request causes an outbound call.         *)
(***************************************************************************)
C5_NoRule502AfterAuth ==
    NoRuleMatches(route_rules, req.path) =>
        /\ outbound = <<>>
        /\ pc \notin {"read_body", "send"}
        /\ pc = "done" =>
              \/ resp = Response(502, "No upstream configured for path: ",
                                 Stripped(req.path), "proxy_handler")
              \/ resp.by = "rate_limit_layer" /\ resp.status = 429
              \/ resp.by = "JwtAuth" /\ resp.status = 401
        /\ pc = "done" /\ resp.by \notin {"rate_limit_layer", "JwtAuth"} =>
              /\ resp.status = 502
              /\ trace = PipelineOrder

C5_Witness ==
    /\ pc = "done"
    /\ req.path = S_nope
    /\ route_rules # <<>>
    /\ resp = Response(502, "No upstream configured for path: ", S_nope, "proxy_handler")

(***************************************************************************)
(* The verifier called on its own: the parts it is given and what it gives  *)
(* back.                                                                    *)
(***************************************************************************)
VerifierCalled == call.fn = "from_request_parts"

Rejected(status, body) ==
    /\ ~call.result.ok
    /\ call.result.rejection = [status |-> status, body |-> body]

StartsWithBearer(h) == Len(h.value) > 0 /\ h.value[1] = Bearer

\* the header is `Bearer ` followed by a token that is malformed, wrongly signed
\* or expired
BearerThenBadJwt(h, key) ==
    /\ Len(h.value) = 2
    /\ h.value[1] = Bearer
    /\ h.value[2] \in TokenNames
    /\ \/ ~Tokens[h.value[2]].wellformed
       \/ Tokens[h.value[2]].key # key
       \/ Tokens[h.value[2]].exp < Now

C7_BucketPerPeer ==
    pc = "done" /\ resp.body = "Too Many Requests (client)" =>
        req.connect_info.ip \in clients

(***************************************************************************)
(* C8.  Since its last replenishment the global bucket has let through at   *)
(* most global_qps requests, a configured 0 counting as 1, so that the      *)
(* bucket starts with at least one cell; a request that finds the bucket    *)
(* empty is answered 429 "Too Many Requests (global)" and one that finds a  *)
(* cell takes it: with global_qps = 1 the second of two requests without a  *)
(* replenishment between them is rejected.                                  *)
(***************************************************************************)
EffectiveQps(qps) == IF qps < 1 THEN 1 ELSE qps

GlobalBudgetKept ==
    /\ limits.global_cap = EffectiveQps(settings.global_qps)
    /\ limits.global_cap >= 1
    /\ limits.global >= 0
    /\ global_passed + limits.global <= EffectiveQps(settings.global_qps)
    /\ global_passed <= EffectiveQps(settings.global_qps)
    /\ global_passed = 0 /\ served = 0 => limits.global >= 1

GlobalCheckStep ==
    pc = "rate_limit_layer" /\ pc' # pc =>
        IF limits.global = 0
        THEN /\ resp' = Response(429, "Too Many Requests (global)", <<>>, "rate_limit_layer")
             /\ pc' = "done"
             /\ global_passed' = global_passed
        ELSE /\ resp'.body # "Too Many Requests (global)"
             /\ limits'.global = limits.global - 1
             /\ global_passed' = global_passed + 1

C8_GlobalBucket == [](GlobalBudgetKept) /\ [][GlobalCheckStep]_vars

C8_Witness ==
    /\ pc = "done"
    /\ settings.global_qps = 0
    /\ served = 2
    /\ global_passed = 1
    /\ resp = Response(429, "Too Many Requests (global)", <<>>, "rate_limit_layer")

(***************************************************************************)
(* C9.  For a validated rule list and a path, find_best_match returns,      *)
(* among the rules that match the path, the one with the highest score, a   *)
(* rule's score being the maximum over its patterns of len(pattern), plus   *)
(* 1000 when the pattern contains one of `{`, `*`, `?`; among rules of      *)
(* equal score the earliest in the list; and no rule exactly when no rule   *)
(* matches.                                                                 *)
(***************************************************************************)
C9_BestMatch ==
    call.fn = "find_best_match" =>
        LET rules == call.args[1]
            path  == call.args[2]
        IN (\A i \in 1..Len(rules) : validate(rules[i])) =>
              /\ call.result \in 0..Len(rules)
              /\ call.result = 0 <=> MatchingRules(rules, path) = {}
              /\ call.result # 0 => IsBestRule(rules, path, call.result)

C9_Witness ==
    /\ call.fn = "find_best_match"
    /\ Len(call.args[1]) = 2
    /\ call.args[1][1].prefix = <<S_user_star>>
    /\ call.args[1][2].prefix = <<S_user_q>>
    /\ call.args[2] = S_user_x
    /\ MatchingRules(call.args[1], call.args[2]) = {1, 2}
    /\ ScoreOfRule(call.args[1][1]) = ScoreOfRule(call.args[1][2])
    /\ call.result = 1

(***************************************************************************)
(* C10.  For a pattern S without `{`, `*`, `?`, matching accepts a path P   *)
(* if and only if P = S or P starts with S followed by `/`: every accepted  *)
(* P other than S has `/` at index len(S) (counted from 0), and /user       *)
(* accepts /user/profile but not /users.                                    *)
(***************************************************************************)
LiteralOnly(S) == \A i \in 1..Len(S) : S[i] \notin {"{", "*", "?"}

SegmentPrefix(S, P) ==
    \/ P = S
    \/ /\ Len(P) > Len(S)
       /\ \A i \in 1..Len(S) : P[i] = S[i]
       /\ P[Len(S) + 1] = "/"

C10_LiteralBoundary ==
    /\ call.fn = "matches_prefix" /\ LiteralOnly(call.args[1]) =>
          LET S == call.args[1]
              P == call.args[2]
          IN /\ call.result <=> SegmentPrefix(S, P)
             /\ call.result /\ P # S => P[Len(S) + 1] = "/"
             /\ S = S_user /\ P = S_user_profile => call.result
             /\ S = S_user /\ P = S_users => ~call.result
             /\ call.result <=>
                   RouteRule_matches(Rule(<<S>>, <<<<"http://u:1">>>>, "robin", NoWhitelist), P)

C10_Witness ==
    /\ call.fn = "matches_prefix"
    /\ call.args = <<S_user, S_users>>
    /\ call.result = FALSE

(***************************************************************************)
(* C11.  Whenever the winning rule contains the literal prefix S, alone or *)
(* alongside other prefixes, and the request path is S followed by `/x`,   *)
(* the forward path is exactly `/x`: the outbound URL is an upstream of    *)
(* the rule followed by `/x` and by `?` and the query string of the        *)
(* request, unchanged.                                                     *)
(***************************************************************************)
Slash_x == <<"/", "x">>

C11_LiteralPrefixStripped ==
    pc = "read_body" =>
       LET P    == MatchPath(req.path)
           best == find_best_match(route_rules, P)
       IN \A i \in 1..Len(route_rules[best].prefix) :
             LET S == route_rules[best].prefix[i]
             IN LiteralOnly(S) /\ P = S \o Slash_x =>
                   \E j \in 1..Len(route_rules[best].upstream) :
                      req.target = route_rules[best].upstream[j] \o Slash_x
                                   \o (IF req.query.some THEN <<"?">> \o req.query.text
                                       ELSE <<>>)

(***************************************************************************)
(* C12.  For an ip_hash rule the proxy calls select with the client IP of  *)
(* the request, so that the chosen upstream is the one the ring gives for  *)
(* the client's own address, and two requests from the same client IP go   *)
(* to the same upstream.                                                   *)
(***************************************************************************)
C12_SelectByClientIp ==
    pc = "read_body" =>
       LET best == find_best_match(route_rules, MatchPath(req.path))
           rule == route_rules[best]
       IN rule.strategy = "iphash" =>
             LET chosen == IpHashSelect(BalancerState_build(rule.upstream, VirtualNodes),
                                        SomeAddr(req.connect_info.ip))
             IN req.target = chosen \o reconstruct_forward_path(MatchPath(req.path), rule.prefix)
                             \o query_suffix(req.query)

(***************************************************************************)
(* Vocabulary of the balancer properties.                                  *)
(***************************************************************************)
\* the select calls that have produced their result
Selected(t) == direct.tasks[t].op = "select" /\ direct.tasks[t].pc = "returned"

UrlsOf(kind, list) ==
    IF kind = "WeightedRandom" THEN {list[i].url : i \in DOMAIN list}
    ELSE {list[i] : i \in DOMAIN list}

RECURSIVE SumOfWeights(_, _)
SumOfWeights(list, i) ==
    IF i = 0 THEN 0 ELSE list[i].weight + SumOfWeights(list, i - 1)

(***************************************************************************)
(* C13.  For a given ip-hash state, select(ip) returns the upstream of the *)
(* ring entry with the smallest key >= hash(ip text), or of the entry with *)
(* the smallest key when no key is >= the hash; two calls with the same IP *)
(* on the same state return the same upstream, whatever other selects ran  *)
(* in between.                                                             *)
(***************************************************************************)
IpText(client_ip) == IF client_ip.some THEN <<client_ip.ip>> ELSE <<"127.0.0.1">>

\* u is the upstream of the first ring entry at or after h, wrapping around
RingSuccessor(ring, h, u) ==
    \E k \in DOMAIN ring :
       /\ ring[k] = u
       /\ \/ k >= h /\ \A j \in DOMAIN ring : j >= h => k <= j
          \/ (\A j \in DOMAIN ring : j < h) /\ (\A j \in DOMAIN ring : k <= j)

C13_RingSuccessor ==
    direct.bal # <<>> /\ direct.bal.kind = "IpHash" =>
       /\ \A t \in TaskIds :
             Selected(t) /\ DOMAIN direct.tasks[t].snapshot.hash_ring # {} =>
                RingSuccessor(direct.tasks[t].snapshot.hash_ring,
                              hasher[IpText(direct.tasks[t].arg)],
                              direct.tasks[t].result)
       /\ \A t, u \in TaskIds :
             /\ Selected(t) /\ Selected(u)
             /\ direct.tasks[t].arg = direct.tasks[u].arg
             /\ direct.tasks[t].snapshot = direct.tasks[u].snapshot
             => direct.tasks[t].result = direct.tasks[u].result

\* the second select to finish: its hash lies behind a ring key of another
\* upstream, and it returns the upstream of a later key
C13_Witness ==
    /\ direct.bal # <<>> /\ direct.bal.kind = "IpHash"
    /\ direct.selects = 2
    /\ \E t \in TaskIds :
          /\ Selected(t)
          /\ direct.tasks[t].arg = SomeAddr("10.0.0.1")
          /\ \E k \in DOMAIN direct.tasks[t].snapshot.hash_ring :
                /\ k < hasher[<<"10.0.0.1">>]
                /\ direct.tasks[t].snapshot.hash_ring[k] # direct.tasks[t].result

(***************************************************************************)
(* C14.  On a round-robin balancer with a non-empty list of n upstreams    *)
(* and no update, the k-th select since creation (k = 0, 1, 2, ...)        *)
(* returns list[k mod n]; four selects in sequence over [a, b] return      *)
(* a, b, a, b.                                                             *)
(***************************************************************************)
\* the selects of a round-robin balancer that was never updated
RoundRobinNoUpdate ==
    /\ direct.bal # <<>> /\ direct.bal.kind = "RoundRobin"
    /\ direct.stores = 0
    /\ Len(direct.bal.state) > 0

C14_KthSelect ==
    RoundRobinNoUpdate =>
       \A t \in TaskIds :
          Selected(t) =>
             direct.tasks[t].result =
                direct.bal.state[(direct.tasks[t].k % Len(direct.bal.state)) + 1]

\* C14 as amended: the k-th select returns list[(k mod 2^W) mod n], W being the
\* width of the counter, which is list[k mod n] for every k below 2^W; the
\* first four selects over [a, b] return a, b, a, b
C14_KthSelectUpToWrap ==
    RoundRobinNoUpdate =>
       \A t \in TaskIds :
          Selected(t) =>
             LET k    == direct.tasks[t].k
                 list == direct.bal.state
             IN /\ direct.tasks[t].result = list[((k % (2 ^ UsizeBits)) % Len(list)) + 1]
                /\ k < 2 ^ UsizeBits => direct.tasks[t].result = list[(k % Len(list)) + 1]
                /\ list = <<Ua, Ub>> /\ k < 4 =>
                      direct.tasks[t].result = <<Ua, Ub, Ua, Ub>>[k + 1]

\* the fourth select over [a, b] has returned b
C14_Witness ==
    /\ RoundRobinNoUpdate
    /\ direct.bal.state = <<Ua, Ub>>
    /\ \E t \in TaskIds :
          Selected(t) /\ direct.tasks[t].k = 3 /\ direct.tasks[t].result = Ub

(***************************************************************************)
(* C15.  For all three balancers, a select that runs concurrently with an  *)
(* update computes its result entirely from one published state, the one   *)
(* before or the one after the update: never from a mixture, never from a  *)
(* partially built ring or prefix-sum array; it never indexes out of       *)
(* bounds and never waits for the writer.                                  *)
(***************************************************************************)
\* a state with nothing to select
NothingIn(kind, state) ==
    CASE kind = "RoundRobin"     -> Len(state) = 0
      [] kind = "WeightedRandom" ->
           Len(state.upstreams) = 0
           \/ SumOfWeights(state.upstreams, Len(state.upstreams)) = 0
      [] OTHER                   -> DOMAIN state.hash_ring = {}

\* what a select can return from one state
ResultsFrom(kind, state) ==
    IF NothingIn(kind, state) THEN {None} ELSE UrlsOf(kind, ListOf(kind, state))

\* the state is complete: the prefix sums run over all positive weights up to
\* the total, the ring holds every virtual node of every upstream and nothing else
FullyBuilt(kind, state) ==
    CASE kind = "RoundRobin" -> TRUE
      [] kind = "WeightedRandom" ->
           /\ Len(state.prefix_sums) =
                 Cardinality({i \in DOMAIN state.upstreams : state.upstreams[i].weight > 0})
           /\ state.total_weight = SumOfWeights(state.upstreams, Len(state.upstreams))
           /\ \A i \in DOMAIN state.prefix_sums :
                 /\ i > 1 => state.prefix_sums[i - 1] < state.prefix_sums[i]
                 /\ i = Len(state.prefix_sums) => state.prefix_sums[i] = state.total_weight
      [] OTHER ->
           /\ \A i \in DOMAIN state.upstreams, n \in 0..(state.virtual_nodes - 1) :
                 hasher[RingKey(state.upstreams[i], n)] \in DOMAIN state.hash_ring
           /\ \A k \in DOMAIN state.hash_ring :
                 \E i \in DOMAIN state.upstreams, n \in 0..(state.virtual_nodes - 1) :
                    /\ state.hash_ring[k] = state.upstreams[i]
                    /\ hasher[RingKey(state.upstreams[i], n)] = k

\* the next step of a select, the rest of the gateway standing still
SelectStep(t) ==
    /\ select_load(t) \/ select_finish(t)
    /\ UNCHANGED <<route_rules, settings, limits, pattern_cache, balancers, req, pc,
                   trace, resp, outbound, served, global_passed, clients, call, hasher,
                   metrics>>

C15_OneSnapshot ==
    direct.bal # <<>> =>
       /\ \A state \in direct.published : FullyBuilt(direct.bal.kind, state)
       /\ \A t \in TaskIds :
             direct.tasks[t].op = "select" =>
                /\ direct.tasks[t].pc \in {"loaded", "returned"} =>
                      direct.tasks[t].snapshot \in direct.published
                /\ direct.tasks[t].pc = "returned" =>
                      direct.tasks[t].result
                         \in ResultsFrom(direct.bal.kind, direct.tasks[t].snapshot)
                /\ direct.tasks[t].pc \in {"called", "loaded"} => ENABLED SelectStep(t)

\* a select has returned an upstream of the snapshot it loaded although an
\* update has since published a state without that upstream
C15_Witness ==
    /\ direct.bal # <<>>
    /\ \E t \in TaskIds :
          /\ Selected(t)
          /\ direct.tasks[t].snapshot # direct.bal.state
          /\ direct.tasks[t].result # None
          /\ direct.tasks[t].result \notin ResultsFrom(direct.bal.kind, direct.bal.state)

(***************************************************************************)
(* C17.  For a weighted-random state with weights w_i and total T > 0,     *)
(* every draw r in [1, T] selects the first upstream whose cumulative      *)
(* weight is >= r, so that exactly w_i of the T draws select upstream i:   *)
(* an upstream with weight 0 is never selected.                            *)
(***************************************************************************)
\* the first position whose cumulative weight reaches r
FirstReaching(list, r) ==
    CHOOSE i \in DOMAIN list :
       /\ SumOfWeights(list, i) >= r
       /\ \A j \in 1..(i - 1) : SumOfWeights(list, j) < r

C17_DrawSelectsByWeight ==
    direct.bal # <<>> /\ direct.bal.kind = "WeightedRandom" =>
       \A t \in TaskIds :
          Selected(t) /\ direct.tasks[t].snapshot.total_weight > 0 =>
             LET list == direct.tasks[t].snapshot.upstreams
                 i    == FirstReaching(list, direct.tasks[t].draw)
             IN /\ direct.tasks[t].result = list[i].url
                /\ list[i].weight > 0

(***************************************************************************)
(* C18.  Once update_upstreams (ip-hash, round-robin) or update            *)
(* (weighted-random) has returned, every select that starts afterwards     *)
(* returns a member of the new upstream list, the list published when it   *)
(* starts or one published while it runs, never an upstream that is only   *)
(* in an older list; it returns Some whenever that list is non-empty with  *)
(* positive total weight.                                                  *)
(***************************************************************************)
\* a list with nothing to select: empty, or without a positive weight
NothingInList(kind, list) ==
    \/ Len(list) = 0
    \/ kind = "WeightedRandom" /\ SumOfWeights(list, Len(list)) = 0

C18_SelectAfterUpdate ==
    direct.bal # <<>> =>
       \A t \in TaskIds :
          Selected(t) /\ direct.tasks[t].after_update =>
             \E list \in direct.tasks[t].seen :
                IF NothingInList(direct.bal.kind, list)
                THEN direct.tasks[t].result = None
                ELSE direct.tasks[t].result \in UrlsOf(direct.bal.kind, list)

\* a select that started after an update had returned holds an upstream that
\* the state before the update did not have
C18_Witness ==
    /\ direct.bal # <<>>
    /\ direct.stores = 1
    /\ \E t \in TaskIds :
          /\ Selected(t) /\ direct.tasks[t].after_update
          /\ direct.tasks[t].result # None
          /\ \E old \in direct.published :
                direct.tasks[t].result \notin ResultsFrom(direct.bal.kind, old)

Holding(t) == direct.tasks[t].pc \in {"select", "returned"}

SelectsOn(selected, key) == Cardinality({i \in 1..Len(selected) : selected[i] = key})

C16_OneInstancePerKey ==
    direct.bal = <<>> /\ "constructed" \in DOMAIN direct =>
       /\ NoDuplicates(direct.constructed)
       /\ \A e \in balancers :
             /\ \A f \in balancers : f.key = e.key => f = e
             /\ \E i \in 1..Len(direct.constructed) :
                   /\ direct.constructed[i] = e.key
                   /\ RetainedId(direct.retained, e.key) = i
             /\ e.bal.kind = "RoundRobin" =>
                   e.bal.current = SelectsOn(direct.selected, e.key) % UsizeModulus
       /\ \A t \in TaskIds :
             Holding(t) =>
                /\ HasBalancer(balancers, KeyOf(direct.tasks[t].arg))
                /\ direct.tasks[t].got
                      = RetainedId(direct.retained, KeyOf(direct.tasks[t].arg))

\* two handlers were called for a key nobody had constructed, both hold the one
\* instance, and the second select continued from the first
C16_Witness ==
    /\ direct.bal = <<>> /\ "constructed" \in DOMAIN direct
    /\ direct.tasks[1].pc = "returned" /\ direct.tasks[2].pc = "returned"
    /\ direct.tasks[1].raced /\ direct.tasks[2].raced
    /\ KeyOf(direct.tasks[1].arg) = KeyOf(direct.tasks[2].arg)
    /\ direct.tasks[1].arg # direct.tasks[2].arg
    /\ direct.tasks[1].got = direct.tasks[2].got
    /\ Len(direct.constructed) = 1
    /\ direct.tasks[1].result = Ua /\ direct.tasks[2].result = Ub

(***************************************************************************)
(* C20.  The request counter and the duration histogram are updated        *)
(* exactly once for every completed request whose path is not `/metrics`,  *)
(* under the labels of the request's method, its original path and the     *)
(* final status, also when the request was short-circuited with 429, 401,  *)
(* 500 or 502; they are never updated for `/metrics`.                      *)
(***************************************************************************)
CountOf(vec, label) == IF label \in DOMAIN vec THEN vec[label] ELSE 0

\* vec_after is vec with one more update under label and nothing else
OneMore(vec, vec_after, label) ==
    /\ CountOf(vec_after, label) = CountOf(vec, label) + 1
    /\ \A l \in (DOMAIN vec \cup DOMAIN vec_after) \ {label} :
          CountOf(vec_after, l) = CountOf(vec, l)

\* the step in which a request completes: its response leaves the gateway
Completes == pc = "done" /\ pc' = "idle"

C20_CountedOnce ==
    [][IF Completes /\ req.path # S_metrics
       THEN /\ OneMore(metrics.counter, metrics'.counter,
                       <<req.method, req.path, resp.status>>)
            /\ OneMore(metrics.duration, metrics'.duration, <<req.method, req.path>>)
       ELSE metrics' = metrics]_vars

\* the first request was counted under a short-circuit status, the second was
\* for /metrics and left all counts as they were
C20_Witness ==
    /\ pc = "idle" /\ served = 2
    /\ \E label \in DOMAIN metrics.counter :
          /\ label[3] \in {429, 401, 500, 502}
          /\ DOMAIN metrics.counter = {label}
          /\ metrics.counter[label] = 1
          /\ DOMAIN metrics.duration = {<<label[1], label[2]>>}
          /\ metrics.duration[<<label[1], label[2]>>] = 1

(***************************************************************************)
(* C21.  When verification succeeds with claims whose subject             *)
(* (tenant) is not empty, the request forwarded to the upstream carries    *)
(* the header `uid` equal to the subject (`tenant_id` equal to the         *)
(* tenant), whatever the client sent under that name; when the claim is    *)
(* empty or the request was whitelisted, the gateway sets no such header:  *)
(* the forwarded header is what the client sent.                           *)
(***************************************************************************)
\* for (name, value) in req.headers().iter() { rb = rb.header(name, value) }:
\* the headers `uid` and `tenant_id` of the outbound request
ForwardedHeaders(r) == ClientHeaders(r.uid, r.tenant_id)

\* the request is on its way to the upstream
Forwarding == pc \in {"read_body", "send"}

\* the claims verification gave: none for a whitelisted request
VerifiedClaims(r) == IF ~r.whitelist /\ r.jwt.present THEN r.jwt.claims ELSE EmptyClaims

C21_HeadersFromClaims ==
    Forwarding =>
       LET claims == VerifiedClaims(req)
           sent   == ForwardedHeaders(req)
       IN /\ sent.uid = IF claims.sub # "" THEN claims.sub ELSE req.received.uid
          /\ sent.tenant_id = IF claims.tenant_id # "" THEN claims.tenant_id
                              ELSE req.received.tenant_id

(***************************************************************************)
(* C22.  For each inbound request the gateway issues at most one outbound  *)
(* request; a transport, timeout or body-read failure is answered 500 with *)
(* a JSON error body and is never retried, and a request whose body cannot *)
(* be read causes no outbound request at all.                              *)
(***************************************************************************)
ErrorBodies == {"Proxy error: ", "Body read error: ", "Response body error: "}

C22_AtMostOneOutbound ==
    /\ Len(outbound) <= 1
    /\ resp.by = "proxy_handler" /\ resp.status = 500 => resp.body \in ErrorBodies
    /\ resp.body \in ErrorBodies => resp.status = 500 /\ pc = "done"
    /\ resp.body = "Body read error: " => outbound = <<>>

(***************************************************************************)
(* path_matcher.rs called directly: from_pattern on a pattern of the pool, *)
(* then matches and match_path on a path; and matches_prefix of config.rs  *)
(* on the same patterns.                                                   *)
(***************************************************************************)
\* the longest path over MatcherAlphabet handed to a matcher
MaxPathLen == 6

MatcherAlphabet == {"/", "a", "1"}

RECURSIVE WordsUpTo(_, _)
WordsUpTo(alphabet, n) ==
    IF n = 0 THEN {<<>>}
    ELSE WordsUpTo(alphabet, n - 1)
         \cup {Append(x, c) : x \in WordsUpTo(alphabet, n - 1), c \in alphabet}

P_all == <<"/", "*", "*">>

P_a_all == <<"/", "a", "/", "*", "*">>

P_rel_all == <<"a", "/", "*", "*">>

P_a_1_all == <<"/", "a", "/", "1", "/", "*", "*">>

P_a_slash_all == <<"/", "a", "/", "/", "*", "*">>

P_star == <<"/", "*">>

P_a_star == <<"/", "a", "/", "*">>

P_a_q == <<"/", "a", "/", "?">>

P_a_x == <<"/", "a", "/", "{", "x", "}">>

P_a == <<"/", "a">>

P_a_1 == <<"/", "a", "/", "1">>

P_a_slash_1 == <<"/", "a", "/", "/", "1">>

P_x_any == <<"/", "{", "x", ":", ".", "*", "}">>

P_x_y == <<"/", "{", "x", "}", "/", "{", "y", ":", "[", "0", "-", "9", "]", "+", "}">>

P_xy == <<"/", "{", "x", "}", "{", "y", ":", "[", "0", "-", "9", "]", "}">>

P_x_two == <<"/", "{", "x", ":", "[", "0", "-", "9", "]", "{", "2", "}", "}">>

P_x_a_slash == <<"/", "{", "x", ":", "[", "a", "/", "]", "+", "}">>

P_open == <<"/", "a", "/", "{", "x">>

P_class_open == <<"/", "{", "x", ":", "[", "0", "-", "9", "}">>

P_digit_name == <<"/", "{", "1", "}">>

P_twice == <<"/", "{", "x", "}", "/", "{", "x", "}">>

PatternPool ==
    {P_all, P_a_all, P_rel_all, P_a_1_all, P_a_slash_all,
     P_star, P_a_star, P_a_q, P_a_x, P_a,
     P_a_1, P_a_slash_1, P_x_any, P_x_y, P_xy,
     P_x_two, P_x_a_slash, P_open, P_class_open, P_digit_name,
     P_twice}

\* paths holding the characters of a pattern
PatternLikePaths ==
    {<<"/", "{", "a">>,
     <<"/", "a", "/", "{", "x">>,
     <<"/", "a", "/", "{", "x", "1">>,
     <<"/", "a", "/", "{", "x", "/", "1">>,
     <<"/", "{", "x", ":", "[", "0", "-", "9", "}">>,
     <<"/", "{", "x", ":", "[", "0", "-", "9", "}", "1">>,
     <<"/", "{", "1", "}">>,
     <<"/", "{", "1", "}", "/", "a">>,
     <<"/", "{", "x", "}", "/", "{", "x", "}">>,
     <<"/", "{", "x", "}", "/", "{", "x", "}", "a">>,
     <<"/", "{", "x", ":", "[", "a", "/", "]", "+", "}">>,
     <<"/", "{", "x", ":", "[", "0", "-", "9", "]", "{", "2", "}", "}">>,
     <<"/", "a", "/", "/", "1">>,
     <<"/", "a", "/", "/">>}

MatcherPaths == WordsUpTo(MatcherAlphabet, MaxPathLen) \cup PatternLikePaths
\* RoutePattern::from_pattern(pattern), then matches(path) and match_path(path)
\* on the matcher it returned; an Err of from_pattern ends the call.  What
\* from_pattern returns does not depend on the cache (SpecCache), which is
\* left out of these calls
match_path_call(pattern, path) ==
    IF from_pattern(pattern).ok
    THEN [compiled  |-> TRUE,
          regex     |-> from_pattern(pattern).nodes,
          var_names |-> from_pattern(pattern).var_names,
          matches   |-> RoutePattern_matches(from_pattern(pattern), path),
          found     |-> RoutePattern_match_path(from_pattern(pattern), path)]
    ELSE [compiled |-> FALSE, regex |-> <<>>, var_names |-> <<>>,
          matches |-> FALSE, found |-> NoMap]

CallMatchPath ==
    /\ call.fn = ""
    /\ \E pattern \in PatternPool, path \in MatcherPaths :
          call' = [fn |-> "match_path", args |-> <<pattern, path>>,
                   result |-> match_path_call(pattern, path)]
    /\ UNCHANGED <<route_rules, settings, limits, pattern_cache, balancers, req, pc,
                   trace, resp, outbound, served, global_passed, clients,
                   hasher, metrics, direct>>

CallMatchesPattern ==
    /\ call.fn = ""
    /\ \E prefix \in PatternPool, path \in MatcherPaths :
          call' = [fn |-> "matches_prefix", args |-> <<prefix, path>>,
                   result |-> matches_prefix(prefix, path)]
    /\ UNCHANGED <<route_rules, settings, limits, pattern_cache, balancers, req, pc,
                   trace, resp, outbound, served, global_passed, clients,
                   hasher, metrics, direct>>

InitMatcher == InitWith({<<>>}, {<<1, 1>>})

NextMatcher ==
    \/ CallMatchPath
    \/ CallMatchesPattern
    \/ Return

SpecMatcher == InitMatcher /\ [][NextMatcher]_vars

(***************************************************************************)
(* C23.  A pattern S + "/**" matches exactly the paths that start with     *)
(* S + "/" (S + "/" itself and any number of further segments): not the    *)
(* bare path S, and no path in which S is not at the start.                *)
(***************************************************************************)
SlashDoubleStar == <<Slash>> \o DoubleStar

EndsWithSlashDoubleStar(p) ==
    Len(p) >= 3 /\ SubSeq(p, Len(p) - 2, Len(p)) = SlashDoubleStar

\* the S of a pattern S + "/**"
Stem(p) == SubSeq(p, 1, Len(p) - 3)

C23_DoubleStarPrefix ==
    (call.fn = "match_path" /\ EndsWithSlashDoubleStar(call.args[1]))
    => /\ call.result.compiled
       /\ call.result.matches <=> StartsWith(call.args[2], Stem(call.args[1]) \o <<Slash>>)

(***************************************************************************)
(* C24.  In a compiled pattern `?` matches exactly one character other     *)
(* than "/", `*` zero or more of them and {name} one non-empty run of      *)
(* them; the matcher is anchored at both ends, so a pattern without `**`   *)
(* matches no path with a different number of segments, and a compiled     *)
(* literal pattern matches only the identical path.                        *)
(***************************************************************************)
WithoutDoubleStar(p) ==
    \A i \in 1..Len(Split(p, Slash)) : Split(p, Slash)[i] # DoubleStar

SegmentCount(s) == Len(Split(s, Slash))

\* s is "/a/" followed by between lo and hi characters other than "/"
UnderA(s, lo, hi) ==
    /\ StartsWith(s, <<Slash, "a", Slash>>)
    /\ Len(s) - 3 \in lo..hi
    /\ \A i \in 4..Len(s) : s[i] # Slash

C24_AnchoredSegments ==
    call.fn = "match_path" =>
      /\ call.args[1] = P_a_q    => (call.result.matches <=> UnderA(call.args[2], 1, 1))
      /\ call.args[1] = P_a_star => (call.result.matches <=> UnderA(call.args[2], 0, MaxPathLen))
      /\ call.args[1] = P_a_x    => (call.result.matches <=> UnderA(call.args[2], 1, MaxPathLen))
      /\ (/\ WithoutDoubleStar(call.args[1])
          /\ ~Contains(call.args[1], ":")
          /\ call.result.matches)
         => /\ SegmentCount(call.args[2]) = SegmentCount(call.args[1])
            /\ ~IsPattern(call.args[1]) => call.args[2] = call.args[1]

(***************************************************************************)
(* C25.  When a path matches a pattern, match_path returns a map holding,  *)
(* for every {name} or {name:re} of the pattern, exactly the substring of  *)
(* the path matched at that variable's position; it returns no map exactly *)
(* when matches(path) is false.                                            *)
(***************************************************************************)
\* the position of the node that closes the group opened at k
CloseOf(nodes, k) == CHOOSE j \in (k + 1)..Len(nodes) :
                        /\ nodes[j].t = "close"
                        /\ \A i \in (k + 1)..(j - 1) : nodes[i].t # "close"

Literally(s) == [i \in 1..Len(s) |-> Lit(s[i])]

\* the expression with each group replaced by the text the map holds for it
RECURSIVE Instantiate(_, _, _)
Instantiate(nodes, k, map) ==
    IF k > Len(nodes) THEN <<>>
    ELSE IF nodes[k].t = "open"
         THEN Literally(map[nodes[k].name]) \o Instantiate(nodes, CloseOf(nodes, k) + 1, map)
         ELSE <<nodes[k]>> \o Instantiate(nodes, k + 1, map)

\* each value of the map is matched, whole, by the body of its group
GroupsFit(nodes, map) ==
    \A k \in 1..Len(nodes) :
       nodes[k].t = "open" =>
          MatchFrom(SubSeq(nodes, k + 1, CloseOf(nodes, k) - 1), 1, map[nodes[k].name], 1)

Count(s, c) == Cardinality({i \in 1..Len(s) : s[i] = c})

Unbalanced(p) == Count(p, "{") > Count(p, "}")

\* patterns the regex engine refuses: an unclosed class, a group name that
\* starts with a digit, a group name used twice
RefusedPatterns == {P_class_open, P_digit_name, P_twice}

C26_FallbackOnUnbalanced ==
    (/\ call.fn = "matches_prefix"
     /\ call.args[1] \in RefusedPatterns \/ Unbalanced(call.args[1]))
    => call.result = StartsWith(call.args[2], call.args[1])

\* C26, amended: the fallback is taken for the patterns the regex engine
\* refuses; an unbalanced "{" compiles, the brace a literal character of an
\* anchored matcher
C26_FallbackOnRefused ==
    call.fn = "matches_prefix" =>
      /\ call.args[1] \in RefusedPatterns
           => call.result = StartsWith(call.args[2], call.args[1])
      /\ call.args[1] = P_open => call.result = (call.args[2] = call.args[1])

C26_Witness ==
    /\ call.fn = "matches_prefix"
    /\ call.args = <<P_class_open, <<"/", "{", "x", ":", "[", "0", "-", "9", "}", "1">>>>
    /\ call.result = TRUE

(***************************************************************************)
(* C30.  For every pattern segment {name:re} the compiler emits one        *)
(* capture named name whose body is exactly the inner expression re, for   *)
(* any inner expression: one that contains "}" (a counted repetition) and  *)
(* one that allows "/" included.                                           *)
(***************************************************************************)
WithInner == {P_x_any, P_x_y, P_xy, P_x_two, P_x_a_slash}

\* the {name:re} written in a pattern of WithInner
NamedInner(p) ==
    CASE p = P_x_any     -> [name |-> <<"x">>, re |-> <<".", "*">>]
      [] p = P_x_y       -> [name |-> <<"y">>, re |-> <<"[", "0", "-", "9", "]", "+">>]
      [] p = P_xy        -> [name |-> <<"y">>, re |-> <<"[", "0", "-", "9", "]">>]
      [] p = P_x_two     -> [name |-> <<"x">>, re |-> <<"[", "0", "-", "9", "]", "{", "2", "}">>]
      [] p = P_x_a_slash -> [name |-> <<"x">>, re |-> <<"[", "a", "/", "]", "+">>]

\* the positions of the expression that open a capture of the name
CapturesOf(nodes, name) == {k \in 1..Len(nodes) : nodes[k] = GroupOpen(name)}

C30_CaptureBodyIsInner ==
    (call.fn = "match_path" /\ call.args[1] \in WithInner) =>
      /\ call.result.compiled
      /\ Cardinality(CapturesOf(call.result.regex, NamedInner(call.args[1]).name)) = 1
      /\ \A k \in CapturesOf(call.result.regex, NamedInner(call.args[1]).name) :
            SubSeq(call.result.regex, k + 1, CloseOf(call.result.regex, k) - 1)
              = InnerNodes(NamedInner(call.args[1]).re).nodes

(***************************************************************************)
(* path_matcher.rs: RoutePattern::from_pattern called by several tasks,    *)
(* step by step: the cache is a HashMap behind a Mutex, taken once for the *)
(* lookup and once for the insert.                                         *)
(***************************************************************************)
MaxCacheCalls == 3

CachePatterns == {P_a_x, P_x_y, P_twice}

\* a caller of from_pattern: its position, the pattern, the number of the call,
\* the matcher it compiled, what it returns
NoMatcherCall ==
    [pc |-> "idle", arg |-> <<>>, id |-> 0, new_pattern |-> <<>>,
     result |-> [ok |-> FALSE, id |-> 0, value |-> <<>>]]

\* cache: the entries of PATTERN_CACHE, each with the call that compiled its
\* value; lock: the task holding the Mutex; inserts: the inserts made (history)
CacheWith ==
    [bal     |-> <<>>,
     tasks   |-> [t \in TaskIds |-> NoMatcherCall],
     calls   |-> 0,
     lock    |-> 0,
     cache   |-> {},
     inserts |-> <<>>]

from_pattern_call(t) ==
    /\ direct.tasks[t].pc = "idle"
    /\ direct.calls < MaxCacheCalls
    /\ \E pattern \in CachePatterns :
          direct' = [direct EXCEPT
             !.calls = @ + 1,
             !.tasks[t] = [NoMatcherCall EXCEPT
                 !.pc = "lock_get", !.arg = pattern, !.id = direct.calls + 1]]
    /\ UNCHANGED pattern_cache

\* PATTERN_CACHE.lock().unwrap() of the first block
lock_get(t) ==
    /\ direct.tasks[t].pc = "lock_get"
    /\ direct.lock = 0
    /\ direct' = [direct EXCEPT !.lock = t, !.tasks[t].pc = "get"]
    /\ UNCHANGED pattern_cache

\* cache.get(pattern): a clone of the cached matcher is returned, or the block
\* ends; the guard is dropped either way
cache_get(t) ==
    /\ direct.tasks[t].pc = "get"
    /\ IF \E e \in direct.cache : e.key = direct.tasks[t].arg
       THEN LET cached == CHOOSE e \in direct.cache : e.key = direct.tasks[t].arg
            IN direct' = [direct EXCEPT
                  !.lock = 0,
                  !.tasks[t].result = [ok |-> TRUE, id |-> cached.id, value |-> cached.value],
                  !.tasks[t].pc = "returned"]
       ELSE direct' = [direct EXCEPT !.lock = 0, !.tasks[t].pc = "compile"]
    /\ UNCHANGED pattern_cache

\* Self::compile_pattern(pattern)?
compile(t) ==
    /\ direct.tasks[t].pc = "compile"
    /\ IF compile_pattern(direct.tasks[t].arg).ok
       THEN direct' = [direct EXCEPT
               !.tasks[t].new_pattern = compile_pattern(direct.tasks[t].arg),
               !.tasks[t].pc = "lock_insert"]
       ELSE direct' = [direct EXCEPT !.tasks[t].pc = "returned"]
    /\ UNCHANGED pattern_cache

\* PATTERN_CACHE.lock().unwrap() of the second block
lock_insert(t) ==
    /\ direct.tasks[t].pc = "lock_insert"
    /\ direct.lock = 0
    /\ direct' = [direct EXCEPT !.lock = t, !.tasks[t].pc = "insert"]
    /\ UNCHANGED pattern_cache

\* a map that keeps the old entry next to the new one
HashMap_insert_beside(map, kv) == map \cup {kv}

\* HashMap::insert: the value under the key is replaced
HashMap_insert(map, kv) == {e \in map : e.key # kv.key} \cup {kv}

\* cache.insert(pattern.to_string(), new_pattern.clone()); Ok(new_pattern)
cache_insert(t) ==
    /\ direct.tasks[t].pc = "insert"
    /\ direct' = [direct EXCEPT
          !.lock = 0,
          !.cache = HashMap_insert(@, [key   |-> direct.tasks[t].arg,
                                       id    |-> direct.tasks[t].id,
                                       value |-> direct.tasks[t].new_pattern]),
          !.inserts = Append(@, [key |-> direct.tasks[t].arg, id |-> direct.tasks[t].id]),
          !.tasks[t].result = [ok |-> TRUE, id |-> direct.tasks[t].id,
                               value |-> direct.tasks[t].new_pattern],
          !.tasks[t].pc = "returned"]
    /\ pattern_cache' = pattern_cache \cup {direct.tasks[t].arg}

\* the caller takes the Result
from_pattern_return(t) ==
    /\ direct.tasks[t].pc = "returned"
    /\ direct' = [direct EXCEPT !.tasks[t] = NoMatcherCall]
    /\ UNCHANGED pattern_cache

InitCache ==
    /\ direct = CacheWith
    /\ hasher = <<>>
    /\ metrics = NoMetrics
    /\ route_rules = <<>>
    /\ settings = Settings("k1", 1, 1)
    /\ limits = init_rate_limits(settings)
    /\ pattern_cache = {}
    /\ balancers = {}
    /\ req = NoReq
    /\ pc = "idle"
    /\ trace = <<>>
    /\ resp = NoResp
    /\ outbound = <<>>
    /\ served = 0
    /\ global_passed = 0
    /\ clients = {}
    /\ call = NoCall

CacheStep(t) ==
    \/ from_pattern_call(t)
    \/ lock_get(t)
    \/ cache_get(t)
    \/ compile(t)
    \/ lock_insert(t)
    \/ cache_insert(t)
    \/ from_pattern_return(t)

NextCache ==
    /\ \E t \in TaskIds : CacheStep(t)
    /\ UNCHANGED <<route_rules, settings, limits, balancers, req, pc, trace, resp,
                   outbound, served, global_passed, clients, call, hasher, metrics>>

SpecCache == InitCache /\ [][NextCache]_vars

(***************************************************************************)
(* C27.  from_pattern called any number of times for one pattern string,   *)
(* sequentially or concurrently, returns matchers that accept the same     *)
(* paths and extract the same variables, from the cache or freshly         *)
(* compiled; callers racing to compile one uncached pattern leave a single *)
(* cache entry for it, the loser's compiled value being discarded rather   *)
(* than stored; the cache lock is held around the lookup and the insert    *)
(* only, never during compilation.                                         *)
(***************************************************************************)
CachePaths ==
    {<<>>, <<"/", "a">>, <<"/", "a", "/">>, <<"/", "a", "/", "1">>,
     <<"/", "a", "/", "a">>, <<"/", "1", "/", "1">>, <<"/", "a", "/", "1", "1">>,
     <<"/", "a", "/", "1", "/", "1">>, <<"/", "a", "1", "/", "a">>}

\* what a matcher answers on the paths: matches and match_path
Answers(rp) ==
    [path \in CachePaths |->
        <<RoutePattern_matches(rp, path), RoutePattern_match_path(rp, path)>>]

\* the answers of a matcher freshly compiled from each pattern
FreshAnswers ==
    [p \in CachePatterns |->
        [ok |-> compile_pattern(p).ok, answers |-> Answers(compile_pattern(p))]]

\* what every returned call holds accepts the same paths and extracts the
\* same variables as a fresh compilation of its pattern
ReturnsEquivalent ==
    \A t \in TaskIds :
       direct.tasks[t].pc = "returned" =>
          /\ direct.tasks[t].result.ok = FreshAnswers[direct.tasks[t].arg].ok
          /\ direct.tasks[t].result.ok
               => Answers(direct.tasks[t].result.value)
                    = FreshAnswers[direct.tasks[t].arg].answers

SingleEntry ==
    \A e1, e2 \in direct.cache : e1.key = e2.key => e1 = e2

LockAroundMapOnly ==
    \A t \in TaskIds : direct.lock = t => direct.tasks[t].pc \in {"get", "insert"}

InsertsOf(key) == {i \in 1..Len(direct.inserts) : direct.inserts[i].key = key}

LastInsertOf(key) == CHOOSE i \in InsertsOf(key) : \A j \in InsertsOf(key) : j <= i

C27_LoserDiscarded ==
    /\ ReturnsEquivalent
    /\ SingleEntry
    /\ LockAroundMapOnly
    /\ \A key \in CachePatterns : Cardinality(InsertsOf(key)) <= 1

\* C27, amended: every racer stores its value, the later insert replacing the
\* earlier one, so the entry holds the value inserted last
C27_LastInsertKept ==
    /\ ReturnsEquivalent
    /\ SingleEntry
    /\ LockAroundMapOnly
    /\ \A key \in CachePatterns :
          IF InsertsOf(key) = {} THEN \A e \in direct.cache : e.key # key
          ELSE \E e \in direct.cache :
                  /\ e.key = key
                  /\ e.id = direct.inserts[LastInsertOf(key)].id

C27_Witness ==
    /\ Cardinality(InsertsOf(P_a_x)) = 2
    /\ \E t, u \in TaskIds :
          /\ t # u
          /\ \A v \in {t, u} : /\ direct.tasks[v].pc = "returned"
                                /\ direct.tasks[v].arg = P_a_x
                                /\ direct.tasks[v].result.id = direct.tasks[v].id
    /\ Cardinality(direct.cache) = 1

(***************************************************************************)
(* main.rs and config.rs: the start of the process, from load_settings to  *)
(* axum::serve, on a routes.toml drawn from a pool of rule files.          *)
(***************************************************************************)
MaxFileRules == 2

\* a [[routes]] table of routes.toml as written: the strategy key may be absent
RawRule(prefix, upstream, strategy) ==
    [prefix |-> prefix, upstream |-> upstream, strategy |-> strategy]

Omitted == [some |-> FALSE, value |-> ""]

Written(value) == [some |-> TRUE, value |-> value]

WrittenStrategies ==
    {Omitted} \cup {Written(s) : s \in {"robin", "random", "iphash", "round_robin",
                                        "weighted_random", "ip_hash", "unknown"}}

PrefixLists == {<<>>, <<P_a>>, <<P_a, <<" ", "\t">>>>, <<<<>>>>}

UpstreamLists == {<<>>, <<<<"http://u:1">>>>, <<<<"http://u:1">>, <<" ">>>>}

RawRulePool ==
    {RawRule(p, u, s) : p \in PrefixLists, u \in UpstreamLists, s \in WrittenStrategies}

\* the rules a file goes on with after its first one
LaterRulePool ==
    {RawRule(<<P_a>>, <<<<"http://u:1">>>>, Omitted),
     RawRule(<<P_a_all>>, <<<<"http://u:1">>>>, Written("ip_hash")),
     RawRule(<<P_a>>, <<>>, Written("iphash"))}

RECURSIVE RuleLists(_)
RuleLists(n) ==
    IF n = 0 THEN {<<>>}
    ELSE IF n = 1 THEN {<<>>} \cup {<<r>> : r \in RawRulePool}
    ELSE RuleLists(n - 1)
         \cup {Append(f, r) : f \in {g \in RuleLists(n - 1) : Len(g) = n - 1},
                              r \in LaterRulePool}

\* routes.toml: missing or not TOML of the expected shape, or a list of rules
RouteFiles ==
    {[readable |-> FALSE, routes |-> <<>>]}
    \cup {[readable |-> TRUE, routes |-> f] : f \in RuleLists(MaxFileRules)}

\* what load_settings finds in config.* and the environment: every field, or
\* a field missing
Environments == {Settings("k1", 1, 1), NoSettings}

default_strategy == "robin"

\* the Deserialize of RouteRule: #[serde(default = "default_strategy")]
deserialize(raw) ==
    Rule(raw.prefix, raw.upstream,
         IF raw.strategy.some THEN raw.strategy.value ELSE default_strategy,
         NoWhitelist)

\* the first rule of the list that validate rejects, 0 when there is none
FirstInvalid(rules) ==
    IF \E i \in 1..Len(rules) : ~validate(rules[i])
    THEN CHOOSE i \in 1..Len(rules) :
            /\ ~validate(rules[i])
            /\ \A j \in 1..(i - 1) : validate(rules[j])
    ELSE 0

\* load_route_rules: Err for the file, Err naming the first invalid rule, or
\* Ok(rf.routes)
load_route_rules(file) ==
    IF ~file.readable THEN [ok |-> FALSE, err |-> "file", rule |-> 0, routes |-> <<>>]
    ELSE IF FirstInvalid([i \in 1..Len(file.routes) |-> deserialize(file.routes[i])]) # 0
    THEN [ok |-> FALSE, err |-> "rule",
          rule |-> FirstInvalid([i \in 1..Len(file.routes) |-> deserialize(file.routes[i])]),
          routes |-> <<>>]
    ELSE [ok |-> TRUE, err |-> "", rule |-> 0,
          routes |-> [i \in 1..Len(file.routes) |-> deserialize(file.routes[i])]]

\* Result::unwrap_or_default: the rules, or an empty Vec for an Err
unwrap_or_default(loaded) == IF loaded.ok THEN loaded.routes ELSE <<>>

NotLoaded == [ok |-> FALSE, err |-> "", rule |-> 0, routes |-> <<>>]

\* file, env: the input of the start; loaded: what load_route_rules returned;
\* exit: the error main returned, "" while it runs
StartWith(file, env) ==
    [bal |-> <<>>, tasks |-> <<>>, file |-> file, env |-> env,
     loaded |-> NotLoaded, exit |-> ""]

\* let settings = config::load_settings()?; init_rate_limits(&settings)
main_load_settings ==
    /\ pc = "load_settings"
    /\ IF direct.env.present
       THEN /\ settings' = direct.env
            /\ limits' = init_rate_limits(direct.env)
            /\ pc' = "load_route_rules"
            /\ UNCHANGED direct
       ELSE /\ direct' = [direct EXCEPT !.exit = "load_settings"]
            /\ pc' = "exit"
            /\ UNCHANGED <<settings, limits>>
    /\ UNCHANGED route_rules

\* let route_rules = config::load_route_rules().unwrap_or_default(); the Router
\* is built with Extension(route_rules)
main_load_route_rules ==
    /\ pc = "load_route_rules"
    /\ route_rules' = unwrap_or_default(load_route_rules(direct.file))
    /\ direct' = [direct EXCEPT !.loaded = load_route_rules(direct.file)]
    /\ pc' = "bind"
    /\ UNCHANGED <<settings, limits>>

\* TcpListener::bind(&settings.gateway_bind).await?; axum::serve(listener, ..):
\* the address is taken, or the gateway listens
main_serve ==
    /\ pc = "bind"
    /\ \/ pc' = "serving" /\ UNCHANGED direct
       \/ pc' = "exit" /\ direct' = [direct EXCEPT !.exit = "bind"]
    /\ UNCHANGED <<settings, limits, route_rules>>

InitConfig ==
    /\ \E file \in RouteFiles, env \in Environments : direct = StartWith(file, env)
    /\ pc = "load_settings"
    /\ settings = NoSettings
    /\ limits = init_rate_limits(NoSettings)
    /\ route_rules = <<>>
    /\ hasher = <<>>
    /\ metrics = NoMetrics
    /\ pattern_cache = {}
    /\ balancers = {}
    /\ req = NoReq
    /\ trace = <<>>
    /\ resp = NoResp
    /\ outbound = <<>>
    /\ served = 0
    /\ global_passed = 0
    /\ clients = {}
    /\ call = NoCall

NextConfig ==
    /\ \/ main_load_settings
       \/ main_load_route_rules
       \/ main_serve
    /\ UNCHANGED <<pattern_cache, balancers, req, trace, resp, outbound, served,
                   global_passed, clients, call, hasher, metrics>>

SpecConfig == InitConfig /\ [][NextConfig]_vars

(***************************************************************************)
(* C28.  A route rule is accepted by validation if and only if its pattern *)
(* list is non-empty with no blank entry, its upstream list is non-empty   *)
(* with no blank entry, and its strategy is one of round_robin,            *)
(* weighted_random, ip_hash; a rule that omits the strategy gets           *)
(* round_robin.                                                            *)
(***************************************************************************)
WhiteSpace == {" ", "\t", "\n", "\r"}

NonEmptyNoBlank(list) ==
    /\ list # <<>>
    /\ \A i \in 1..Len(list) : \E j \in 1..Len(list[i]) : list[i][j] \notin WhiteSpace

\* a rule as written is well formed, the strategy one of tags or absent
WellFormed(raw, tags) ==
    /\ NonEmptyNoBlank(raw.prefix)
    /\ NonEmptyNoBlank(raw.upstream)
    /\ raw.strategy.some => raw.strategy.value \in tags

\* the file of one rule has been through load_route_rules
OneRuleLoaded ==
    /\ pc \in {"bind", "serving"} \/ (pc = "exit" /\ direct.exit = "bind")
    /\ direct.file.readable
    /\ Len(direct.file.routes) = 1

\* accepted by the tags given, an omitted strategy becoming the default tag
AcceptedIff(tags, default) ==
    OneRuleLoaded =>
      /\ direct.loaded.ok
           <=> WellFormed(direct.file.routes[1], tags)
      /\ (direct.loaded.ok /\ ~direct.file.routes[1].strategy.some)
           => direct.loaded.routes[1].strategy = default

C28_AcceptedIff == AcceptedIff({"round_robin", "weighted_random", "ip_hash"}, "round_robin")

\* C28, amended: the tags are robin, random and iphash, the default robin
C28_AcceptedIffShortTags == AcceptedIff({"robin", "random", "iphash"}, "robin")

C28_Witness ==
    /\ OneRuleLoaded
    /\ ~direct.file.routes[1].strategy.some
    /\ direct.loaded.ok
    /\ route_rules = <<Rule(<<P_a>>, <<<<"http://u:1">>>>, "robin", NoWhitelist)>>

(***************************************************************************)
(* C29.  A configuration error at startup, in particular a route rule that *)
(* fails validation, aborts the process with a descriptive message: the    *)
(* gateway never starts listening with a route table built from an invalid *)
(* rule file.                                                              *)
(***************************************************************************)
C29_InvalidFileAborts == pc \in {"bind", "serving"} => direct.loaded.ok

(***************************************************************************)
(* C32.  The `uid` and `tenant_id` values that reach the upstream depend   *)
(* only on the verified token: two requests that differ only in the `uid`  *)
(* and `tenant_id` headers the client supplied produce the same outbound   *)
(* headers, so a header of the client is never forwarded as sent, also on  *)
(* whitelisted paths and for tokens with an empty subject or tenant.       *)
(***************************************************************************)
\* the `uid` and `tenant_id` headers a client can send along
ClientSupplied ==
    {ClientHeaders(uid, tenant_id) : uid \in {"", "admin"}, tenant_id \in {"", "root"}}

\* the headers of a request that arrived with `sent` after propagate_auth_headers
\* ran on it with the extension jwt, as proxy_handler copies them to the outbound
\* request
PropagatedFrom(jwt, sent) ==
    LET uid       == IF jwt.present THEN jwt.claims.sub ELSE ""
        tenant_id == IF jwt.present THEN jwt.claims.tenant_id ELSE ""
    IN ClientHeaders(insert_claim(sent.uid, uid), insert_claim(sent.tenant_id, tenant_id))

C32_TokenOnly ==
    Forwarding =>
       /\ ForwardedHeaders(req) = PropagatedFrom(req.jwt, req.received)
       /\ \A other \in ClientSupplied :
             PropagatedFrom(req.jwt, other) = ForwardedHeaders(req)

(***************************************************************************)
(* ip_hash.rs: add_upstream and remove_upstream under concurrent callers.  *)
(* Each call is a sequence of steps between which the other tasks run:     *)
(* the load of the published state, the build of the new one, the store.   *)
(***************************************************************************)
MaxMemberCalls == 3

\* the upstreams the callers add and remove
MemberArgs == {Ua, Ub}

\* a task: the call it is in, its position, the upstream it was given, the list
\* it made of the loaded one, the state it built
NoMember == [op |-> "", pc |-> "idle", arg |-> <<>>, new_list |-> <<>>, new_state |-> <<>>]

\* added, removed are history: the upstreams add_upstream and remove_upstream
\* were called with
MembersWith(bal) ==
    [bal     |-> bal,
     tasks   |-> [t \in TaskIds |-> NoMember],
     calls   |-> 0,
     added   |-> {},
     removed |-> {}]

\* IpHashBalancer::get_upstreams
get_upstreams(bal) == bal.state.upstreams

add_upstream_call(t) ==
    /\ direct.tasks[t].pc = "idle"
    /\ direct.calls < MaxMemberCalls
    /\ \E upstream \in MemberArgs :
          direct' = [direct EXCEPT
             !.calls = @ + 1,
             !.added = @ \cup {upstream},
             !.tasks[t] = [NoMember EXCEPT !.op = "add", !.pc = "called",
                                           !.arg = upstream]]

remove_upstream_call(t) ==
    /\ direct.tasks[t].pc = "idle"
    /\ direct.calls < MaxMemberCalls
    /\ \E upstream \in MemberArgs :
          direct' = [direct EXCEPT
             !.calls = @ + 1,
             !.removed = @ \cup {upstream},
             !.tasks[t] = [NoMember EXCEPT !.op = "remove", !.pc = "called",
                                           !.arg = upstream]]

\* let mut new_list = self.state.load().upstreams.clone();
\* if !new_list.contains(&upstream) { new_list.push(upstream); self.update_upstreams(new_list) }
add_upstream_load(t) ==
    /\ direct.tasks[t].op = "add"
    /\ direct.tasks[t].pc = "called"
    /\ LET new_list == direct.bal.state.upstreams
       IN IF Contains(new_list, direct.tasks[t].arg)
          THEN direct' = [direct EXCEPT !.tasks[t].pc = "returned"]
          ELSE direct' = [direct EXCEPT
                  !.tasks[t].new_list = Append(new_list, direct.tasks[t].arg),
                  !.tasks[t].pc = "update_upstreams"]

\* iter().filter(|u| u.as_str() != upstream).cloned().collect()
Without(list, upstream) == SelectSeq(list, LAMBDA u : u # upstream)

\* let new_list = self.state.load().upstreams.iter().filter(..).cloned().collect();
\* self.update_upstreams(new_list)
remove_upstream_load(t) ==
    /\ direct.tasks[t].op = "remove"
    /\ direct.tasks[t].pc = "called"
    /\ direct' = [direct EXCEPT
          !.tasks[t].new_list = Without(direct.bal.state.upstreams, direct.tasks[t].arg),
          !.tasks[t].pc = "update_upstreams"]

\* update_upstreams: BalancerState::build(new_upstreams, self.state.load().virtual_nodes)
update_upstreams_build(t) ==
    /\ direct.tasks[t].pc = "update_upstreams"
    /\ direct' = [direct EXCEPT
          !.tasks[t].new_state =
              BalancerState_build(direct.tasks[t].new_list, direct.bal.state.virtual_nodes),
          !.tasks[t].pc = "built"]

\* update_upstreams: self.state.store(Arc::new(new_state))
update_upstreams_store(t) ==
    /\ direct.tasks[t].pc = "built"
    /\ direct' = [direct EXCEPT
          !.bal.state = direct.tasks[t].new_state,
          !.tasks[t].pc = "returned"]

\* the caller goes on after its call; what it was called with stays on record
member_return(t) ==
    /\ direct.tasks[t].pc = "returned"
    /\ direct' = [direct EXCEPT !.tasks[t] = NoMember]

InitMembers ==
    /\ hasher \in Hashers
    /\ \E list \in IpHashLists : direct = MembersWith(IpHashBalancer_new(list))
    /\ metrics = NoMetrics
    /\ route_rules = <<>>
    /\ settings = Settings("k1", 1, 1)
    /\ limits = init_rate_limits(settings)
    /\ pattern_cache = {}
    /\ balancers = {}
    /\ req = NoReq
    /\ pc = "idle"
    /\ trace = <<>>
    /\ resp = NoResp
    /\ outbound = <<>>
    /\ served = 0
    /\ global_passed = 0
    /\ clients = {}
    /\ call = NoCall

MemberStep(t) ==
    \/ add_upstream_call(t)
    \/ remove_upstream_call(t)
    \/ add_upstream_load(t)
    \/ remove_upstream_load(t)
    \/ update_upstreams_build(t)
    \/ update_upstreams_store(t)
    \/ member_return(t)

NextMembers ==
    /\ \E t \in TaskIds : MemberStep(t)
    /\ UNCHANGED <<route_rules, settings, limits, pattern_cache, balancers, req, pc,
                   trace, resp, outbound, served, global_passed, clients, call, hasher,
                   metrics>>

SpecMembers == InitMembers /\ [][NextMembers]_vars

(***************************************************************************)
(* C33.  IpHashBalancer.add_upstream and remove_upstream take effect       *)
(* atomically with respect to each other: once add_upstream(a) and         *)
(* add_upstream(b) of concurrent callers have both returned, a and b not   *)
(* removed, get_upstreams contains both, and an upstream removed           *)
(* concurrently with an add of a different upstream stays removed.         *)
(***************************************************************************)
\* the task has returned from the call and its caller has not gone on yet
Returned(t, op) == direct.tasks[t].op = op /\ direct.tasks[t].pc = "returned"

C33_AddRemoveAtomic ==
    /\ \A t \in TaskIds :
          Returned(t, "add") /\ direct.tasks[t].arg \notin direct.removed =>
             Contains(get_upstreams(direct.bal), direct.tasks[t].arg)
    /\ \A t \in TaskIds :
          Returned(t, "remove") /\ direct.tasks[t].arg \notin direct.added =>
             ~Contains(get_upstreams(direct.bal), direct.tasks[t].arg)

(***************************************************************************)
(* C35.  A request rejected by the global bucket leaves every per-IP       *)
(* bucket unchanged, whereas a request rejected by the per-IP bucket has   *)
(* already consumed one global token: the global check runs and decrements *)
(* first, so per-IP rejections reduce the global budget left for other     *)
(* clients.                                                                *)
(***************************************************************************)
\* the step in which rate_limit_layer answers 429 with the given verdict
RejectedBy(verdict) ==
    /\ pc = "rate_limit_layer"
    /\ pc' = "done"
    /\ resp' = TooManyRequests(verdict)

C35_RejectionFrame ==
    [][/\ RejectedBy("global") =>
             /\ limits'.per_ip = limits.per_ip
             /\ limits'.global = limits.global
       /\ RejectedBy("client") =>
             /\ limits.global > 0
             /\ limits'.global = limits.global - 1]_vars

\* a request was rejected by the per-IP bucket after it took the last of the two
\* cells of the global bucket: the next request of any client is rejected globally
C35_Witness ==
    /\ pc = "done"
    /\ resp = TooManyRequests("client")
    /\ limits.global = 0
    /\ limits.global_cap = 2
    /\ global_passed = 2

(***************************************************************************)
(* round_robin.rs: a batch of select calls running concurrently on one     *)
(* balancer that is not updated.  The balancer has served some selects     *)
(* before, so the counter starts anywhere in its range.                    *)
(***************************************************************************)
MaxBatch == 3

BatchIds == 1..MaxBatch

BatchLists == {<<>>, <<Ua>>, <<Ua, Ub>>, <<Ua, Ub, Uc>>}

\* a caller: its position, the list it loaded, the counter value fetch_add
\* returned to it, the upstream it got
NoBatchCaller == [pc |-> "idle", ups |-> <<>>, value |-> 0, result |-> None]

\* start, handed are history: the counter when the batch began, the values
\* fetch_add returned in the order it returned them
BatchWith(bal) ==
    [bal    |-> bal,
     tasks  |-> [t \in BatchIds |-> NoBatchCaller],
     start  |-> bal.current,
     handed |-> <<>>]

\* a caller enters select; it calls once
batch_select_call(t) ==
    /\ direct.tasks[t].pc = "idle"
    /\ direct' = [direct EXCEPT !.tasks[t].pc = "called"]

\* let ups = self.upstreams.load()
batch_select_load(t) ==
    /\ direct.tasks[t].pc = "called"
    /\ direct' = [direct EXCEPT !.tasks[t].ups = direct.bal.state,
                                !.tasks[t].pc = "loaded"]

\* if ups.is_empty() { return None }; self.current.fetch_add(1, Ordering::Relaxed):
\* one atomic read-modify-write that returns the value before the increment
batch_select_fetch_add(t) ==
    /\ direct.tasks[t].pc = "loaded"
    /\ IF Len(direct.tasks[t].ups) = 0
       THEN direct' = [direct EXCEPT !.tasks[t].pc = "returned"]
       ELSE direct' = [direct EXCEPT
               !.bal.current = fetch_add(direct.bal.current),
               !.handed = Append(@, direct.bal.current),
               !.tasks[t].value = direct.bal.current,
               !.tasks[t].pc = "fetched"]

\* let index = .. % ups.len(); ups.get(index).cloned()
batch_select_get(t) ==
    /\ direct.tasks[t].pc = "fetched"
    /\ direct' = [direct EXCEPT
          !.tasks[t].result = RoundRobinSelect(direct.tasks[t].ups, direct.tasks[t].value),
          !.tasks[t].pc = "returned"]

InitBatch ==
    /\ \E list \in BatchLists, current \in 0..(UsizeModulus - 1) :
          direct = BatchWith([RoundRobinBalancer_new(list) EXCEPT !.current = current])
    /\ hasher = <<>>
    /\ metrics = NoMetrics
    /\ route_rules = <<>>
    /\ settings = Settings("k1", 1, 1)
    /\ limits = init_rate_limits(settings)
    /\ pattern_cache = {}
    /\ balancers = {}
    /\ req = NoReq
    /\ pc = "idle"
    /\ trace = <<>>
    /\ resp = NoResp
    /\ outbound = <<>>
    /\ served = 0
    /\ global_passed = 0
    /\ clients = {}
    /\ call = NoCall

BatchStep(t) ==
    \/ batch_select_call(t)
    \/ batch_select_load(t)
    \/ batch_select_fetch_add(t)
    \/ batch_select_get(t)

NextBatch ==
    /\ \E t \in BatchIds : BatchStep(t)
    /\ UNCHANGED <<route_rules, settings, limits, pattern_cache, balancers, req, pc,
                   trace, resp, outbound, served, global_passed, clients, call, hasher,
                   metrics>>

SpecBatch == InitBatch /\ [][NextBatch]_vars

(***************************************************************************)
(* C34.  When N select calls run concurrently on a round-robin balancer    *)
(* with n upstreams and no update, they obtain N distinct consecutive      *)
(* counter values, none handed out twice and none skipped, so each         *)
(* upstream is returned either floor(N/n) or ceil(N/n) times whatever the  *)
(* interleaving; only the order in which the callers observe the values    *)
(* may vary.                                                               *)
(***************************************************************************)
\* the callers that have returned; all of the batch have when none is under way
BatchReturned == {t \in BatchIds : direct.tasks[t].pc = "returned"}

BatchOver == \A t \in BatchIds : direct.tasks[t].pc \in {"idle", "returned"}

\* how often the batch was given the upstream
TimesReturned(upstream) ==
    Cardinality({t \in BatchReturned : direct.tasks[t].result = upstream})

\* every upstream was returned floor(N/n) or ceil(N/n) times
EvenShares ==
    LET N == Cardinality(BatchReturned)
        n == Len(direct.bal.state)
    IN \A i \in 1..n :
          TimesReturned(direct.bal.state[i]) \in {N \div n, (N + n - 1) \div n}

\* the values handed out are those of the callers, one each
HandedToCallers ==
    /\ \A i, j \in DOMAIN direct.handed : direct.handed[i] = direct.handed[j] => i = j
    /\ {direct.handed[i] : i \in DOMAIN direct.handed}
          = {direct.tasks[t].value : t \in {u \in BatchIds :
                                              direct.tasks[u].pc \in {"fetched", "returned"}}}

\* the values are handed out in the order of the counter, which follows its
\* maximum with 0
HandedInOrder ==
    \A i \in DOMAIN direct.handed :
       direct.handed[i] = (direct.start + i - 1) % UsizeModulus

C34_EvenShares ==
    Len(direct.bal.state) > 0 =>
       /\ HandedToCallers
       /\ HandedInOrder
       /\ BatchOver => EvenShares

\* C34 as amended: the values are consecutive modulo 2^W, W being the width of
\* the counter, and the shares are even when the batch does not take the counter
\* past its maximum or n divides 2^W; each caller is given the upstream at its
\* value mod n
C34_EvenSharesUpToWrap ==
    Len(direct.bal.state) > 0 =>
       /\ HandedToCallers
       /\ HandedInOrder
       /\ \A t \in BatchReturned :
             direct.tasks[t].result
                = direct.bal.state[(direct.tasks[t].value % Len(direct.bal.state)) + 1]
       /\ \/ direct.start + Len(direct.handed) <= UsizeModulus
          \/ UsizeModulus % Len(direct.bal.state) = 0
          => (BatchOver => EvenShares)

\* three callers over [a, b] took 1, 2, 3, the first caller the last value:
\* b was returned twice, a once
C34_Witness ==
    /\ direct.bal.state = <<Ua, Ub>>
    /\ direct.start = 1
    /\ BatchReturned = BatchIds
    /\ direct.handed = <<1, 2, 3>>
    /\ direct.tasks[1].value = 3
    /\ TimesReturned(Ua) = 1 /\ TimesReturned(Ub) = 2

(***************************************************************************)
(* C31.  When the round-robin counter reaches the maximum machine integer, *)
(* the next increment wraps to 0 without panicking, and every select       *)
(* before, at and after the wrap returns a member of the current non-empty *)
(* upstream list: the index, counter mod len, is always in range.          *)
(***************************************************************************)
\* the largest value of the counter
UsizeMax == UsizeModulus - 1

C31_WrapStaysInRange ==
    /\ direct.bal.current \in 0..UsizeMax
    /\ Len(direct.bal.state) > 0 =>
          /\ direct.bal.current = (direct.start + Len(direct.handed)) % UsizeModulus
          /\ \A i \in DOMAIN direct.handed :
                /\ direct.handed[i] \in 0..UsizeMax
                /\ i > 1 /\ direct.handed[i - 1] = UsizeMax => direct.handed[i] = 0
          /\ Len(direct.handed) > 0 /\ direct.handed[Len(direct.handed)] = UsizeMax =>
                direct.bal.current = 0
          /\ \A t \in BatchReturned :
                /\ direct.tasks[t].result # None
                /\ direct.tasks[t].result \in UrlsOf("RoundRobin", direct.bal.state)

\* over [a, b, c] three selects have returned: the one that took the value before
\* the maximum, the one that took the maximum and the one after it, which took 0
\* and was given a
C31_Witness ==
    /\ direct.bal.state = <<Ua, Ub, Uc>>
    /\ direct.start = UsizeMax - 1
    /\ BatchReturned = {1, 2, 3}
    /\ direct.handed = <<UsizeMax - 1, UsizeMax, 0>>
    /\ \E t \in BatchReturned :
          direct.tasks[t].value = 0 /\ direct.tasks[t].result = Ua
    /\ direct.bal.current = 1

====
